---- MODULE Spec2Model ----
(***************************************************************************)
(* A model of the ledger-backed Dou Dizhu game: the card primitives        *)
(* (core/cards.py), the hand patterns and their registry                   *)
(* (core/hand_patterns.py, core/registry.py), the hash-chained ledger      *)
(* (core/ledger.py), replay (core/replay.py), the rules and bidding        *)
(* (core/rules.py) and the game loop (game.py).                            *)
(*                                                                         *)
(* A card is its code: the pair <<rank token, suit>>, the two parts that   *)
(* Card.code concatenates; a joker's suit is "".  A hash is modelled as a  *)
(* collision-free function: the pair of its two inputs.                    *)
(***************************************************************************)
EXTENDS Integers, Sequences, FiniteSets, TLC

(***************************************************************************)
(* Bounds of the model.                                                    *)
(***************************************************************************)
\* cards dealt to each seat (17 in the program)
HandSize == 2
\* cards left as the bottom (3 in the program: 54 - 3 * 17)
BottomSize == 1
\* how many shuffles of the deck the deal draws from
NumShuffles == 2
\* longest command (number of rank tokens) a seat types
MaxCmdLen == 2
\* lines of the log, and append calls in a row, of a caller of the Ledger alone
MaxAppends == 3
\* latest reading of the clock (_now_iso) that caller sees
MaxClock == 1
\* how many times a later process resumes the game
MaxRestarts == 1
\* events of play a replayed log holds after its setup, at most
MaxTail == 2
\* cards in a hand drawn from the pool of a caller of evaluate, at most
MaxHand == 5
\* calls of rebuild on one log, at most
MaxReplays == 2

(***************************************************************************)
(* core/enums.py                                                           *)
(***************************************************************************)
NORMAL == 10
STRONG == 20
BOMB == 90
JOKER_BOMB == 100

LANDLORD == "Landlord"
PEASANT == "Peasant"

\* Python's None where the code holds Optional[int]
None == -1

Seats == 0 .. 2

(***************************************************************************)
(* core/cards.py                                                           *)
(***************************************************************************)
RANK_ORDER ==
    <<"3", "4", "5", "6", "7", "8", "9", "10", "J", "Q", "K", "A", "2", "BJ", "RJ">>

\* RANK_VALUE = {r: i for i, r in enumerate(RANK_ORDER)}
RankTable ==
    [r \in {RANK_ORDER[i] : i \in DOMAIN RANK_ORDER} |->
        (CHOOSE i \in DOMAIN RANK_ORDER : RANK_ORDER[i] = r) - 1]

RANK_VALUE(r) == RankTable[r]

SUITS == <<"S", "H", "C", "D">>

\* Card.rank(): the code without its suit symbol
rank(c) == c[1]

\* Card.suit(): None (here "") for a joker
suit(c) == c[2]

value(c) == RANK_VALUE(rank(c))

\* The order of the suit symbols as strings, which sort_cards compares:
\* "" < spade (U+2660) < club (U+2663) < heart (U+2665) < diamond (U+2666)
SuitKey(s) ==
    CASE s = "" -> 0
      [] s = "S" -> 1
      [] s = "C" -> 2
      [] s = "H" -> 3
      [] s = "D" -> 4

\* the sort key of sort_cards, (value, suit), compared lexicographically
KeyLeq(a, b) ==
    \/ value(a) < value(b)
    \/ value(a) = value(b) /\ SuitKey(suit(a)) <= SuitKey(suit(b))

\* standard_deck(): 13 ranks x 4 suits in RANK_ORDER / SUITS order, then BJ, RJ
standard_deck ==
    [i \in 1 .. 52 |-> <<RANK_ORDER[((i - 1) \div 4) + 1], SUITS[((i - 1) % 4) + 1]>>]
        \o << <<"BJ", "">>, <<"RJ", "">> >>

\* sorted(..., key): a stable insertion of c into an already sorted list
InsertSorted(c, s) ==
    LET k == IF \A i \in DOMAIN s : KeyLeq(s[i], c) THEN Len(s)
             ELSE (CHOOSE i \in DOMAIN s :
                      /\ ~KeyLeq(s[i], c)
                      /\ \A j \in 1 .. (i - 1) : KeyLeq(s[j], c)) - 1
    IN  SubSeq(s, 1, k) \o <<c>> \o SubSeq(s, k + 1, Len(s))

RECURSIVE sort_cards(_)
sort_cards(cs) ==
    IF cs = <<>> THEN <<>>
    ELSE InsertSorted(cs[Len(cs)], sort_cards(SubSeq(cs, 1, Len(cs) - 1)))

\* remove the element at index i (del hand[i])
DelAt(s, i) == SubSeq(s, 1, i - 1) \o SubSeq(s, i + 1, Len(s))

\* the ranks of a list of cards
RanksOf(cs) == [i \in DOMAIN cs |-> rank(cs[i])]

(***************************************************************************)
(* core/hand_patterns.py                                                   *)
(***************************************************************************)
\* Optional[HandMatch] = None
NoMatch == [name |-> "None", key |-> -1, meta |-> <<>>, priority |-> -1, size |-> 0]

HandMatch(n, k, m, p, s) == [name |-> n, key |-> k, meta |-> m, priority |-> p, size |-> s]

\* dict(Counter(ranks)): rank -> number of cards of that rank
counts_by_rank(cs) ==
    [r \in {rank(cs[i]) : i \in DOMAIN cs} |->
        Cardinality({i \in DOMAIN cs : rank(cs[i]) = r})]

\* sorted(cnt.values())
RECURSIVE SortedCounts(_, _)
SortedCounts(cnt, S) ==
    IF S = {} THEN <<>>
    ELSE LET r == CHOOSE r \in S : \A q \in S : cnt[r] <= cnt[q]
         IN  <<cnt[r]>> \o SortedCounts(cnt, S \ {r})

sorted_values(cnt) == SortedCounts(cnt, DOMAIN cnt)

\* sorted(ranks, key=RANK_VALUE) of a set of distinct ranks
RECURSIVE SortedRanks(_)
SortedRanks(S) ==
    IF S = {} THEN <<>>
    ELSE LET r == CHOOSE r \in S : \A q \in S : RANK_VALUE(r) <= RANK_VALUE(q)
         IN  <<r>> \o SortedRanks(S \ {r})

\* is_consecutive as it would be without the exclusion of 2 and the jokers
ConsecutiveWithTwo(ranks) ==
    \A i \in 1 .. (Len(ranks) - 1) :
        RANK_VALUE(ranks[i + 1]) - RANK_VALUE(ranks[i]) = 1

is_consecutive(ranks) ==
    IF \E i \in DOMAIN ranks : ranks[i] \in {"2", "BJ", "RJ"} THEN FALSE
    ELSE \A i \in 1 .. (Len(ranks) - 1) :
            RANK_VALUE(ranks[i + 1]) - RANK_VALUE(ranks[i]) = 1

\* the rank that occurs exactly n times (the code takes the first such)
RankWithCount(cnt, n) == CHOOSE r \in DOMAIN cnt : cnt[r] = n

JokerBombMatch(cs) ==
    IF Len(cs) = 2 /\ {rank(cs[1]), rank(cs[2])} = {"BJ", "RJ"}
    THEN HandMatch("joker_bomb", RANK_VALUE("RJ"), <<>>, JOKER_BOMB, 2)
    ELSE NoMatch

\* the match of n cards of one rank as it would be if more cards were let through
SameRankAtLeast(nm, n, prio, cs) ==
    IF Len(cs) >= n /\ Cardinality(DOMAIN counts_by_rank(cs)) = 1
    THEN HandMatch(nm, RANK_VALUE(rank(cs[1])), <<>>, prio, n)
    ELSE NoMatch

\* Bomb, Pair, Triple, Single: n cards of one rank
SameRankMatch(nm, n, prio, cs) ==
    IF Len(cs) = n /\ Cardinality(DOMAIN counts_by_rank(cs)) = 1
    THEN HandMatch(nm, RANK_VALUE(rank(cs[1])), <<>>, prio, n)
    ELSE NoMatch

\* TripleWithSingle, TripleWithPair, FourWithTwoSingles, FourWithTwoPairs:
\* n cards whose sorted rank counts are `shape`, keyed by the rank with `main` cards
AttachMatch(nm, n, shape, main, prio, cs) ==
    IF Len(cs) = n /\ sorted_values(counts_by_rank(cs)) = shape
    THEN HandMatch(nm, RANK_VALUE(RankWithCount(counts_by_rank(cs), main)), <<>>, prio, n)
    ELSE NoMatch

\* Sequence.match as it would be if it read the ranks in the order given
SequenceUnsorted(cs) ==
    LET ranks == RanksOf(cs)
    IN  IF /\ Len(cs) >= 5
           /\ Cardinality({ranks[i] : i \in DOMAIN ranks}) = Len(ranks)
           /\ is_consecutive(ranks)
        THEN HandMatch("sequence", RANK_VALUE(ranks[Len(ranks)]),
                       << <<"length", Len(ranks)>> >>, NORMAL, Len(ranks))
        ELSE NoMatch

SequenceMatch(cs) ==
    LET ranks == RanksOf(sort_cards(cs))
    IN  IF /\ Len(cs) >= 5
           /\ Cardinality({ranks[i] : i \in DOMAIN ranks}) = Len(ranks)
           /\ is_consecutive(ranks)
        THEN HandMatch("sequence", RANK_VALUE(ranks[Len(ranks)]),
                       << <<"length", Len(ranks)>> >>, NORMAL, Len(ranks))
        ELSE NoMatch

\* PairSequence (each = 2, metakey "length_pairs") and
\* TripleSequence (each = 3, metakey "length_triples")
RunOfGroupsMatch(nm, each, metakey, cs) ==
    LET cnt == counts_by_rank(cs)
        seq == SortedRanks(DOMAIN cnt)
    IN  IF /\ Len(cs) >= 6
           /\ Len(cs) % each = 0
           /\ \A r \in DOMAIN cnt : cnt[r] = each
           /\ is_consecutive(seq)
        THEN HandMatch(nm, RANK_VALUE(seq[Len(seq)]),
                       << <<metakey, Len(cs) \div each>> >>, NORMAL, Len(cs))
        ELSE NoMatch

\* BUILTIN_PATTERNS, in registration order
BUILTIN_PATTERNS ==
    <<"joker_bomb", "bomb", "four_with_two_pairs", "four_with_two_singles",
      "triple_sequence", "pair_sequence", "sequence", "triple_with_pair",
      "triple_with_single", "triple", "pair", "single">>

\* p.match(cards) for the pattern named nm
match(nm, cs) ==
    CASE nm = "joker_bomb" -> JokerBombMatch(cs)
      [] nm = "bomb" -> SameRankMatch("bomb", 4, BOMB, cs)
      [] nm = "four_with_two_pairs" -> AttachMatch(nm, 8, <<2, 2, 4>>, 4, STRONG, cs)
      [] nm = "four_with_two_singles" -> AttachMatch(nm, 6, <<1, 1, 4>>, 4, STRONG, cs)
      [] nm = "triple_sequence" -> RunOfGroupsMatch(nm, 3, "length_triples", cs)
      [] nm = "pair_sequence" -> RunOfGroupsMatch(nm, 2, "length_pairs", cs)
      [] nm = "sequence" -> SequenceMatch(cs)
      [] nm = "triple_with_pair" -> AttachMatch(nm, 5, <<2, 3>>, 3, NORMAL, cs)
      [] nm = "triple_with_single" -> AttachMatch(nm, 4, <<1, 3>>, 3, NORMAL, cs)
      [] nm = "triple" -> SameRankMatch("triple", 3, NORMAL, cs)
      [] nm = "pair" -> SameRankMatch("pair", 2, NORMAL, cs)
      [] nm = "single" -> SameRankMatch("single", 1, NORMAL, cs)

\* meta.get(k): the value under k, or None
MetaGet(meta, k) ==
    IF \E i \in DOMAIN meta : meta[i][1] = k
    THEN meta[CHOOSE i \in DOMAIN meta : meta[i][1] = k][2]
    ELSE None

\* same_shape as it would be if no pattern overrode the base class
SameShapeNameOnly(nm, a, b) == a.name = b.name

\* HandPattern.same_shape and its overrides in Sequence, PairSequence, TripleSequence
same_shape(nm, a, b) ==
    CASE nm = "sequence" ->
            a.name = b.name /\ MetaGet(a.meta, "length") = MetaGet(b.meta, "length")
      [] nm = "pair_sequence" ->
            a.name = b.name /\ MetaGet(a.meta, "length_pairs") = MetaGet(b.meta, "length_pairs")
      [] nm = "triple_sequence" ->
            a.name = b.name
                /\ MetaGet(a.meta, "length_triples") = MetaGet(b.meta, "length_triples")
      [] OTHER -> a.name = b.name

(***************************************************************************)
(* core/registry.py                                                        *)
(***************************************************************************)
\* (m.priority, m.key) > (best.priority, best.key)
TupleGreater(m, best) ==
    \/ m.priority > best.priority
    \/ m.priority = best.priority /\ m.key > best.key

\* the loop of HandRegistry.evaluate from pattern i on, with the best so far
RECURSIVE EvaluateFrom(_, _, _, _)
EvaluateFrom(patterns, i, cs, best) ==
    IF i > Len(patterns) THEN best
    ELSE LET m == match(patterns[i], cs)
         IN  EvaluateFrom(patterns, i + 1, cs,
                          IF m = NoMatch THEN best
                          ELSE IF best = NoMatch \/ TupleGreater(m, best) THEN m
                          ELSE best)

evaluate(cs) == EvaluateFrom(BUILTIN_PATTERNS, 1, cs, NoMatch)

\* HandRegistry._find: whether a pattern of that name is registered
find(nm) == \E i \in DOMAIN BUILTIN_PATTERNS : BUILTIN_PATTERNS[i] = nm

\* can_beat as it would be if the cross-pattern rule compared the keys
CanBeatCrossByKey(current, last) ==
    LET ca == evaluate(current)
        cb == evaluate(last)
    IN  IF ca = NoMatch \/ cb = NoMatch THEN FALSE
        ELSE IF ca.name # cb.name THEN ca.key > cb.key
        ELSE IF find(ca.name) /\ find(cb.name) /\ same_shape(ca.name, ca, cb)
             THEN ca.key > cb.key
        ELSE FALSE

\* can_beat as it would be if the cross-pattern rule let an equal tier through
CanBeatCrossNotLower(current, last) ==
    LET ca == evaluate(current)
        cb == evaluate(last)
    IN  IF ca = NoMatch \/ cb = NoMatch THEN FALSE
        ELSE IF ca.name # cb.name THEN ca.priority >= cb.priority
        ELSE IF find(ca.name) /\ find(cb.name) /\ same_shape(ca.name, ca, cb)
             THEN ca.key > cb.key
        ELSE FALSE

\* can_beat as it would be if an equal key were enough
CanBeatOrTie(current, last) ==
    LET ca == evaluate(current)
        cb == evaluate(last)
    IN  IF ca = NoMatch \/ cb = NoMatch THEN FALSE
        ELSE IF ca.name # cb.name THEN ca.priority > cb.priority
        ELSE IF find(ca.name) /\ find(cb.name) /\ same_shape(ca.name, ca, cb)
             THEN ca.key >= cb.key
        ELSE FALSE

can_beat(current, last) ==
    LET ca == evaluate(current)
        cb == evaluate(last)
    IN  IF ca = NoMatch \/ cb = NoMatch THEN FALSE
        ELSE IF ca.name # cb.name THEN ca.priority > cb.priority
        ELSE IF find(ca.name) /\ find(cb.name) /\ same_shape(ca.name, ca, cb)
             THEN ca.key > cb.key
        ELSE FALSE

(***************************************************************************)
(* core/player.py                                                          *)
(***************************************************************************)
\* how many of the tokens in ranks are r
CountIn(ranks, r) == Cardinality({i \in DOMAIN ranks : ranks[i] = r})

\* Player.has_cards: multiset containment by rank token
has_cards(hand, ranks) ==
    \A i \in DOMAIN ranks : CountIn(RanksOf(hand), ranks[i]) >= CountIn(ranks, ranks[i])

\* the loop of Player.take_cards: for each token, the first card of that rank
\* leaves the hand; returns the hand left and the cards taken, in token order
RECURSIVE TakeLoop(_, _, _)
TakeLoop(hand, ranks, taken) ==
    IF ranks = <<>> THEN [hand |-> hand, taken |-> taken]
    ELSE IF \E i \in DOMAIN hand : rank(hand[i]) = ranks[1]
         THEN LET i == CHOOSE i \in DOMAIN hand :
                          /\ rank(hand[i]) = ranks[1]
                          /\ \A j \in 1 .. (i - 1) : rank(hand[j]) # ranks[1]
              IN  TakeLoop(DelAt(hand, i), Tail(ranks), Append(taken, hand[i]))
         ELSE TakeLoop(hand, Tail(ranks), taken)

\* take_cards as it would be if it copied the cards and left the hand whole
TakeKeepsHand(hand, ranks) == [hand |-> hand, taken |-> TakeLoop(hand, ranks, <<>>).taken]

\* Player.take_cards
take_cards(hand, ranks) == TakeLoop(hand, ranks, <<>>)

\* add_cards as it would be if the cards given were dropped
AddCardsDrops(hand, cs) == hand

\* Player.add_cards: extend, then sort
add_cards(hand, cs) == sort_cards(hand \o cs)

\* Player.is_empty
is_empty(hand) == Len(hand) = 0

(***************************************************************************)
(* core/ledger.py                                                          *)
(***************************************************************************)
\* the sentinel "" that stands for the hash before the first record
EmptyHash == <<>>

\* a mapping key as Python holds it: an int, or a str of the same digits
IntKey(i) == <<"int", i>>
StrKey(i) == <<"str", i>>

\* json.dumps writes every mapping key as a string; of the payloads the
\* program appends only DEAL's "players" has keys that are not strings
JsonPayload(etype, payload) ==
    IF etype = "DEAL"
    THEN [payload EXCEPT !.players =
            [i \in DOMAIN payload.players |->
                <<StrKey(payload.players[i][1][2]), payload.players[i][2]>>]]
    ELSE payload

\* json.dumps(event, sort_keys=True): the canonical text, modelled as the JSON value
JsonDumps(event) == [event EXCEPT !.payload = JsonPayload(event.type, event.payload)]

\* _hash_record as it would be if the payload were left out of the hashed text
HashWithoutPayload(prev_hash, event) == <<prev_hash, event.seq, event.type, event.ts>>

\* _hash_record: sha256 over prev_hash and the canonical text, collision-free
hash_record(prev_hash, event) == <<prev_hash, JsonDumps(event)>>

\* {k: obj[k] for k in ["seq", "type", "payload", "ts"]}
CoreOf(obj) == [seq |-> obj.seq, type |-> obj.type, payload |-> obj.payload, ts |-> obj.ts]

\* a complete line of the file, as json.loads reads it back
RecLine(obj) == [parses |-> TRUE, obj |-> obj, nl |-> TRUE]

\* the fragment a write cut short leaves: not JSON, and without its newline
TornLine == [parses |-> FALSE, obj |-> <<>>, nl |-> FALSE]

\* open(path, "a").write(text + "\n"): the text starts where the file ends, so
\* after a fragment without newline it continues that fragment's line
WriteLine(f, obj) ==
    IF f # <<>> /\ ~f[Len(f)].nl
    THEN [f EXCEPT ![Len(f)] = [parses |-> FALSE, obj |-> <<>>, nl |-> TRUE]]
    ELSE Append(f, RecLine(obj))

\* the Ledger object: the file it names, _seq and _last_hash
LedgerObj(f, s, h) == [file |-> f, seq |-> s, last_hash |-> h]

\* the scan of Ledger.__init__ from line i on: unparsable lines are skipped
RECURSIVE ScanFrom(_, _, _, _)
ScanFrom(f, i, s, h) ==
    IF i > Len(f) THEN LedgerObj(f, s, h)
    ELSE IF f[i].parses THEN ScanFrom(f, i + 1, f[i].obj.seq, f[i].obj.hash)
    ELSE ScanFrom(f, i + 1, s, h)

\* Ledger.__init__
ledger_init(f) == ScanFrom(f, 1, 0, EmptyHash)

\* the record Ledger.append builds (and returns as a LedgerEvent)
FullRecord(L, etype, payload, ts) ==
    LET core == [seq |-> L.seq + 1, type |-> etype, payload |-> payload, ts |-> ts]
    IN  [seq |-> core.seq, type |-> etype, payload |-> payload, ts |-> ts,
         prev_hash |-> L.last_hash, hash |-> hash_record(L.last_hash, core)]

\* Ledger.append as it would be if _last_hash were not updated
AppendKeepsHash(L, etype, payload, ts) ==
    LET full == FullRecord(L, etype, payload, ts)
    IN  LedgerObj(WriteLine(L.file, JsonDumps(full)), full.seq, L.last_hash)

\* Ledger.append: the Ledger after a successful append
append(L, etype, payload, ts) ==
    LET full == FullRecord(L, etype, payload, ts)
    IN  LedgerObj(WriteLine(L.file, JsonDumps(full)), full.seq, full.hash)

\* Ledger.append when open() or write() raises: _seq is already incremented
append_raises(L) == LedgerObj(L.file, L.seq + 1, L.last_hash)

\* what read_all gives: the events, or the exception raised
ReadOk(events) == [ok |-> TRUE, events |-> events, error |-> "", seq |-> None]
ReadRaises(error, s) == [ok |-> FALSE, events |-> <<>>, error |-> error, seq |-> s]

\* the loop of Ledger.read_all from line i on
RECURSIVE ReadFrom(_, _, _, _)
ReadFrom(f, i, prev, out) ==
    IF i > Len(f) THEN ReadOk(out)
    ELSE IF ~f[i].parses THEN ReadRaises("JSONDecodeError", None)
    ELSE IF hash_record(prev, CoreOf(f[i].obj)) # f[i].obj.hash
         THEN ReadRaises("ValueError", f[i].obj.seq)
    ELSE ReadFrom(f, i + 1, f[i].obj.hash, Append(out, f[i].obj))

\* Ledger.read_all
read_all(f) == ReadFrom(f, 1, EmptyHash, <<>>)

(***************************************************************************)
(* core/replay.py                                                          *)
(***************************************************************************)
\* int(i_str): the seat a "players" key names
IntOfKey(k) == k[2]

\* c.code == code or c.rank() == code: a code equals a rank token only when
\* it carries no suit
CodeMatches(c, code) == c = code \/ (suit(code) = "" /\ rank(c) = rank(code))

\* the removal loop of a PLAY event: for each code, the first matching card
\* leaves the hand; a code that matches nothing is skipped
RECURSIVE RemoveCodes(_, _, _)
RemoveCodes(hand, codes, tmp) ==
    IF codes = <<>> THEN [hand |-> hand, taken |-> tmp]
    ELSE IF \E i \in DOMAIN hand : CodeMatches(hand[i], codes[1])
         THEN LET i == CHOOSE i \in DOMAIN hand :
                          /\ CodeMatches(hand[i], codes[1])
                          /\ \A j \in 1 .. (i - 1) : ~CodeMatches(hand[j], codes[1])
              IN  RemoveCodes(DelAt(hand, i), Tail(codes), Append(tmp, hand[i]))
         ELSE RemoveCodes(hand, Tail(codes), tmp)

\* the cards a DEAL payload lists for seat i, in the order of its entries
RECURSIVE DealtTo(_, _)
DealtTo(entries, i) ==
    IF entries = <<>> THEN <<>>
    ELSE (IF IntOfKey(entries[1][1]) = i THEN entries[1][2] ELSE <<>>)
            \o DealtTo(Tail(entries), i)

\* a fresh player set: Player(n) for each name, no cards, the default role
NewPlayers == [cards |-> [i \in Seats |-> <<>>], role |-> [i \in Seats |-> PEASANT]]

\* the start of rebuild as it would be without the loop that resets the players
RebuildStartKeeps(P) ==
    [cards |-> P.cards, role |-> P.role,
     last_play |-> <<>>, last_player |-> None, current_index |-> 0,
     landlord_idx |-> None]

\* the players P and the locals of rebuild after `p.cards.clear()` and
\* `p.role = Role.PEASANT` for every player, before the first event
RebuildStartOn(P) ==
    [cards |-> [i \in Seats |-> <<>>], role |-> [i \in Seats |-> PEASANT],
     last_play |-> <<>>, last_player |-> None, current_index |-> 0,
     landlord_idx |-> None]

\* the same for the fresh player set of a Game that resumes
RebuildStart == RebuildStartOn(NewPlayers)

\* the branch of rebuild's loop for a DEAL event
ApplyDeal(S, e) ==
    [S EXCEPT !.cards =
        [i \in Seats |-> sort_cards(S.cards[i] \o DealtTo(e.payload.players, i))]]

\* the branch for a SET_LANDLORD event
ApplySetLandlord(S, e) ==
    LET ll == e.payload.landlord_idx
    IN  [S EXCEPT !.landlord_idx = ll,
                  !.cards[ll] = sort_cards(S.cards[ll] \o e.payload.bottom),
                  !.role = [i \in Seats |-> IF i = ll THEN LANDLORD ELSE PEASANT],
                  !.current_index = ll]

\* the branch for a PLAY event
ApplyPlay(S, e) ==
    LET idx == e.payload.player_index
        r == RemoveCodes(S.cards[idx], e.payload.codes, <<>>)
    IN  [S EXCEPT !.cards[idx] = r.hand,
                  !.last_play = r.taken,
                  !.last_player = idx,
                  !.current_index = (idx + 1) % 3]

\* the branch for a PASS event as it would be if it left the acting seat alone
ApplyPassStays(S, e) == S

\* the branch for a PASS event
ApplyPass(S, e) == [S EXCEPT !.current_index = (e.payload.player_index + 1) % 3]

\* the branch for a ROUND_RESET event
ApplyRoundReset(S, e) == [S EXCEPT !.last_play = <<>>, !.last_player = None]

\* one iteration of rebuild's loop: an event of any other type changes nothing
ApplyEvent(S, e) ==
    CASE e.type = "DEAL" -> ApplyDeal(S, e)
      [] e.type = "SET_LANDLORD" -> ApplySetLandlord(S, e)
      [] e.type = "PLAY" -> ApplyPlay(S, e)
      [] e.type = "PASS" -> ApplyPass(S, e)
      [] e.type = "ROUND_RESET" -> ApplyRoundReset(S, e)
      [] OTHER -> S

RECURSIVE FoldEvents(_, _, _)
FoldEvents(S, events, i) ==
    IF i > Len(events) THEN S ELSE FoldEvents(ApplyEvent(S, events[i]), events, i + 1)

\* rebuild(players, ledger), given the events read_all returned
rebuild(events) == FoldEvents(RebuildStart, events, 1)

\* rebuild(players, ledger) on a player set P that may have been used
rebuild_on(P, events) == FoldEvents(RebuildStartOn(P), events, 1)

\* the values of EventType
EventTypes ==
    {"GAME_START", "DEAL", "BID", "SET_LANDLORD", "PLAY", "PASS", "ROUND_RESET", "GAME_END"}

(***************************************************************************)
(* core/rules.py                                                           *)
(***************************************************************************)
\* can_play as it would be if it never compared with the last play
CanPlayAnyShape(current, last) == evaluate(current) # NoMatch

\* RuleSet.can_play
can_play(current, last) ==
    IF last = <<>> THEN evaluate(current) # NoMatch ELSE can_beat(current, last)

\* RuleSet.passes_to_reset
passes_to_reset == 2

\* check_win as it would be if it never saw an empty hand
CheckWinNever(hand) == FALSE

\* RuleSet.check_win
check_win(hand) == is_empty(hand)

\* `for _ in range(17)`: the rounds of the deal of the program
DealRounds == 17

\* The deck of the model: the leading 3 * HandSize + BottomSize cards of this
\* selection of standard_deck (5S RJ 4H 3H BJ 4S 3S 3C 5H 4C 5C 3D 4D 5D)
DeckPick == <<9, 54, 6, 2, 53, 5, 1, 3, 10, 7, 11, 4, 8, 12>>
DeckSize == 3 * HandSize + BottomSize
GameDeck == [i \in 1 .. DeckSize |-> standard_deck[DeckPick[i]]]

\* random.shuffle(deck) draws from these orders: the rotations of the deck
Rot(s, k) == [i \in 1 .. Len(s) |-> s[((i - 1 + k) % Len(s)) + 1]]
Shuffles == {Rot(GameDeck, k) : k \in 0 .. (NumShuffles - 1)}

\* deals[i]: round by round, seat i takes deck.pop(), the last card left
Deals(d) == [i \in Seats |-> [r \in 1 .. HandSize |-> d[Len(d) - 3 * (r - 1) - i]]]

\* self.bottom = deck: what the pops leave
BottomOf(d) == SubSeq(d, 1, Len(d) - 3 * HandSize)

\* order = [(start + i) % 3 for i in range(3)]
BidOrder(start) == [k \in 1 .. 3 |-> (start + k - 1) % 3]

\* what choose_bid returns in the model: every bid of the range, and a value
\* out of range on each side
BidInputs == -1 .. 4

\* the test of a bid against the highest as it would be if a tie were enough
OutbidsOrTies(bid, high) == bid >= high

\* `if bid > highest`: the bid takes the lead
Outbids(bid, high) == bid > high

(***************************************************************************)
(* The state: the log file and the session's Ledger, the players and the   *)
(* round state of Game, the rules' bottom and landlord, the locals of      *)
(* _bidding, whether the rules have a bidding controller and the calls it  *)
(* has received, the locals of play(), where the process stands, and the   *)
(* resume pointer.  hpc .. seen belong to a caller of the Ledger alone,     *)
(* fn_in and fn_out to a caller of rebuild or of evaluate: the argument it *)
(* holds and the results it has received.                                  *)
(***************************************************************************)
VARIABLES
    file, ledger_seq, ledger_last_hash, clock,
    cards, role, last_play, last_player, turn_index, passes_in_row,
    bottom, landlord_idx, order, highest, winner, bid_pos, controller, notes,
    pc, latest_ptr, restarts, cmd, out,
    hpc, returned, read_out, tampered, seen,
    fn_in, fn_out

ledgerVars == <<file, ledger_seq, ledger_last_hash>>
roundVars == <<cards, role, last_play, last_player, turn_index, passes_in_row>>
rulesVars == <<bottom, landlord_idx>>
bidVars == <<order, highest, winner, bid_pos, controller, notes>>
fnVars == <<fn_in, fn_out>>
harnessVars == <<hpc, returned, read_out, tampered, seen, fn_in, fn_out>>
vars ==
    <<file, ledger_seq, ledger_last_hash, clock,
      cards, role, last_play, last_player, turn_index, passes_in_row,
      bottom, landlord_idx, order, highest, winner, bid_pos, controller, notes,
      pc, latest_ptr, restarts, cmd, out,
      hpc, returned, read_out, tampered, seen, fn_in, fn_out>>

Names == <<"A", "B", "C">>

\* no read_all done yet
NoRead == [file |-> <<>>, result |-> [ok |-> TRUE, events |-> <<>>, error |-> "none", seq |-> None]]

\* a process that has just constructed Game(names): Player(n) for each name,
\* an empty round state, StandardDouDizhuRules' bottom and landlord_idx
FreshMemory ==
    /\ cards = [i \in Seats |-> <<>>]
    /\ role = [i \in Seats |-> PEASANT]
    /\ last_play = <<>>
    /\ last_player = None
    /\ turn_index = 0
    /\ passes_in_row = 0
    /\ bottom = <<>>
    /\ landlord_idx = 0
    /\ order = <<>>
    /\ highest = -1
    /\ winner = None
    /\ bid_pos = 0
    /\ notes = <<>>
    /\ cmd = <<>>
    /\ out = ""

\* the state after construction: the rules built with a bidding controller or
\* not, the log f on disk, and the argument arg in the hands of a caller
Started(ctl, f, arg) ==
    /\ controller = ctl
    /\ file = f
    /\ ledger_seq = 0
    /\ ledger_last_hash = EmptyHash
    /\ clock = 0
    /\ FreshMemory
    /\ pc = "new"
    /\ latest_ptr = FALSE
    /\ restarts = 0
    /\ hpc = "open"
    /\ returned = <<>>
    /\ read_out = NoRead
    /\ tampered = 0
    /\ seen = {}
    /\ fn_in = arg
    /\ fn_out = <<>>

\* a new log, and no caller of rebuild or evaluate
Start(ctl) == Started(ctl, <<>>, <<>>)

\* Game(names): StandardDouDizhuRules(GameConfig(), self.ledger), no controller
Init == Start(FALSE)

\* the session's Ledger object
TheLedger == LedgerObj(file, ledger_seq, ledger_last_hash)

SetLedger(L) ==
    /\ file' = L.file
    /\ ledger_seq' = L.seq
    /\ ledger_last_hash' = L.last_hash

\* an exception leaves setup() or play(): the session is over, its memory as it was
Raise(error) == pc' = "aborted" /\ out' = error

(***************************************************************************)
(* Game.setup and StandardDouDizhuRules.setup, one step per append.        *)
(* `fails` says that this step's append raises (open or write fails).      *)
(***************************************************************************)
\* Game.setup: announce the game
GameStart(fails) ==
    /\ pc = "new"
    /\ IF fails
       THEN SetLedger(append_raises(TheLedger)) /\ Raise("IOError")
       ELSE /\ SetLedger(append(TheLedger, "GAME_START",
                                [game_id |-> "uuid", names |-> Names], clock))
            /\ pc' = "deal"
            /\ out' = "ok"
    /\ UNCHANGED <<clock, roundVars, rulesVars, bidVars, latest_ptr, restarts, cmd, harnessVars>>

\* StandardDouDizhuRules.setup up to the DEAL event, then the head of _bidding
Deal(d, start, fails) ==
    /\ pc = "deal"
    /\ cards' = [i \in Seats |-> sort_cards(cards[i] \o Deals(d)[i])]
    /\ bottom' = BottomOf(d)
    /\ role' = [i \in Seats |-> PEASANT]
    /\ IF fails
       THEN /\ SetLedger(append_raises(TheLedger))
            /\ Raise("IOError")
            /\ UNCHANGED bidVars
       ELSE /\ SetLedger(append(TheLedger, "DEAL",
                    [players |-> [k \in 1 .. 3 |-> <<IntKey(k - 1), Deals(d)[k - 1]>>],
                     bottom |-> BottomOf(d)], clock))
            /\ order' = BidOrder(start)
            /\ highest' = -1
            /\ winner' = None
            /\ bid_pos' = 1
            /\ controller' = controller
            /\ notes' = IF controller
                         THEN Append(notes, <<"on_bidding_start", BidOrder(start)>>)
                         ELSE notes
            /\ pc' = "bid"
            /\ out' = "ok"
    /\ UNCHANGED <<clock, last_play, last_player, turn_index, passes_in_row,
                   landlord_idx, latest_ptr, restarts, cmd, harnessVars>>

\* one iteration of the loop of _bidding, for the bid the controller returns
\* (`if controller else 0`: without a controller the bid is 0)
Bid(bid, fails) ==
    /\ pc = "bid"
    /\ bid_pos <= 3
    /\ controller \/ bid = 0
    /\ controller' = controller
    /\ LET idx == order[bid_pos]
           asked == IF controller
                    THEN Append(notes, <<"choose_bid", idx, highest>>)
                    ELSE notes
           high == IF Outbids(bid, highest) THEN bid ELSE highest
       IN  IF bid < 0 \/ bid > 3
           THEN /\ Raise("ValueError")
                /\ notes' = asked
                /\ UNCHANGED <<ledgerVars, order, highest, winner, bid_pos>>
           ELSE IF fails
           THEN /\ SetLedger(append_raises(TheLedger))
                /\ Raise("IOError")
                /\ notes' = asked
                /\ UNCHANGED <<order, highest, winner, bid_pos>>
           ELSE /\ SetLedger(append(TheLedger, "BID",
                                    [player_index |-> idx, bid |-> bid], clock))
                /\ highest' = high
                /\ winner' = IF Outbids(bid, highest) THEN idx ELSE winner
                /\ bid_pos' = bid_pos + 1
                /\ order' = order
                /\ notes' = IF controller
                             THEN Append(asked, <<"on_bid_committed", idx, bid, high>>)
                             ELSE notes
                /\ pc' = "bid"
                /\ out' = "ok"
    /\ UNCHANGED <<clock, roundVars, rulesVars, latest_ptr, restarts, cmd, harnessVars>>

\* the rest of _bidding (rnd is random.randrange(0, 3)), the landlord takes the
\* bottom, SET_LANDLORD; then Game.setup sets turn_index and writes the pointer,
\* and play() starts with passes_in_row = 0
SetLandlord(rnd, fails) ==
    /\ pc = "bid"
    /\ bid_pos = 4
    /\ LET nobid == highest <= 0 \/ winner = None
           w == IF nobid THEN rnd ELSE winner
           told == IF nobid THEN Append(notes, <<"on_no_bid">>) ELSE notes
       IN  /\ winner' = w
           /\ controller' = controller
           /\ notes' = IF controller
                        THEN Append(told, <<"on_landlord_selected", w, highest <= 0>>)
                        ELSE notes
           /\ landlord_idx' = w
           /\ role' = [i \in Seats |-> IF i = w THEN LANDLORD ELSE PEASANT]
           /\ cards' = [cards EXCEPT ![w] = add_cards(cards[w], bottom)]
           /\ IF fails
              THEN /\ SetLedger(append_raises(TheLedger))
                   /\ Raise("IOError")
                   /\ UNCHANGED <<bottom, turn_index, latest_ptr>>
              ELSE /\ SetLedger(append(TheLedger, "SET_LANDLORD",
                                       [landlord_idx |-> w, bottom |-> bottom], clock))
                   /\ bottom' = <<>>
                   /\ turn_index' = w
                   /\ latest_ptr' = TRUE
                   /\ pc' = "play"
                   /\ out' = "ok"
    /\ UNCHANGED <<clock, last_play, last_player, passes_in_row,
                   order, highest, bid_pos, restarts, cmd, harnessVars>>

(***************************************************************************)
(* Game.play: one iteration of the loop per command.  cmd is the list of   *)
(* tokens typed, out the outcome of the iteration.                         *)
(***************************************************************************)
\* Game._pick_from_hand: the cards take_cards would take, the hand untouched
pick_from_hand(hand, ranks) == TakeLoop(hand, ranks, <<>>).taken

\* the hand after _pick_from_hand as it would be if the loop worked on
\* p.cards itself instead of a copy
PreviewHandAliased(hand, ranks) == TakeLoop(hand, ranks, <<>>).hand

\* the hand after _pick_from_hand: `hand = p.cards.copy()`, the deletions
\* reach the copy only
PreviewHand(hand, ranks) == hand

\* the commands a seat types: "pass", or up to MaxCmdLen rank tokens, in rank
\* order, among the ranks it sees in its hand
RankLists(hand) ==
    LET R == {rank(hand[i]) : i \in DOMAIN hand}
    IN  {t \in UNION {[1 .. n -> R] : n \in 1 .. MaxCmdLen} :
            \A i \in 1 .. (Len(t) - 1) : RANK_VALUE(t[i]) <= RANK_VALUE(t[i + 1])}

PassCmd == <<"pass">>

\* the test of the "pass" branch as it would be without `not self.last_play`
PassRefusedOwnerOnly == last_player = turn_index

\* the same test as it would be with `and self.last_play` for `not ... or`
PassRefusedOwnerOfPlay == last_play # <<>> /\ last_player = turn_index

\* `if not self.last_play or self.last_player == self.turn_index`: no pass
PassRefused == last_play = <<>> \/ last_player = turn_index

\* the test of the trick reset as it would be if it waited for one more pass
ResetDueLate(n) == n > passes_to_reset

\* the same test as it would be if one pass were enough
ResetDueEarly(n) == n >= passes_to_reset - 1

\* `if passes_in_row >= passes_needed`: the trick resets
ResetDue(n) == n >= passes_to_reset

\* the "pass" branch; fails = 1: the PASS append raises, 2: the ROUND_RESET append
Pass(fails) ==
    /\ pc = "play"
    /\ cmd' = PassCmd
    /\ IF PassRefused
       THEN /\ fails = 0
            /\ out' = "pass_rejected"
            /\ UNCHANGED <<ledgerVars, roundVars, pc>>
       ELSE LET n == passes_in_row + 1
                L1 == append(TheLedger, "PASS", [player_index |-> turn_index], clock)
            IN  IF fails = 1
                THEN /\ passes_in_row' = n
                     /\ SetLedger(append_raises(TheLedger))
                     /\ Raise("IOError")
                     /\ UNCHANGED <<cards, role, last_play, last_player, turn_index>>
                ELSE IF ResetDue(n)
                THEN /\ last_play' = <<>>
                     /\ last_player' = None
                     /\ passes_in_row' = 0
                     /\ IF fails = 2
                        THEN /\ SetLedger(append_raises(L1))
                             /\ Raise("IOError")
                             /\ UNCHANGED turn_index
                        ELSE /\ SetLedger(append(L1, "ROUND_RESET",
                                                 [reason |-> "passes_reset"], clock))
                             /\ turn_index' = (turn_index + 1) % 3
                             /\ pc' = "play"
                             /\ out' = "reset"
                     /\ UNCHANGED <<cards, role>>
                ELSE /\ fails = 0
                     /\ passes_in_row' = n
                     /\ SetLedger(L1)
                     /\ turn_index' = (turn_index + 1) % 3
                     /\ pc' = "play"
                     /\ out' = "passed"
                     /\ UNCHANGED <<cards, role, last_play, last_player>>
    /\ UNCHANGED <<clock, rulesVars, bidVars, latest_ptr, restarts, harnessVars>>

\* the branch for rank tokens; fails = 1: the PLAY append raises, 2: the GAME_END append
Play(ranks, fails) ==
    /\ pc = "play"
    /\ cmd' = ranks
    /\ LET p == cards[turn_index]
           temp == pick_from_hand(p, ranks)
           held == PreviewHand(p, ranks)
           m == evaluate(temp)
           t == take_cards(held, ranks)
           L1 == append(TheLedger, "PLAY",
                        [player_index |-> turn_index,
                         codes |-> t.taken,
                         tokens |-> RanksOf(t.taken),
                         match |-> [name |-> m.name, key |-> m.key, meta |-> m.meta,
                                    priority |-> m.priority]], clock)
       IN  IF ~has_cards(p, ranks)
           THEN /\ fails = 0
                /\ out' = "not_held"
                /\ UNCHANGED <<ledgerVars, roundVars, pc>>
           ELSE IF m = NoMatch
           THEN /\ fails = 0
                /\ out' = "no_pattern"
                /\ cards' = [cards EXCEPT ![turn_index] = held]
                /\ UNCHANGED <<ledgerVars, role, last_play, last_player, turn_index,
                               passes_in_row, pc>>
           ELSE IF /\ last_play # <<>>
                   /\ last_player # turn_index
                   /\ ~can_play(temp, last_play)
           THEN /\ fails = 0
                /\ out' = "cannot_beat"
                /\ cards' = [cards EXCEPT ![turn_index] = held]
                /\ UNCHANGED <<ledgerVars, role, last_play, last_player, turn_index,
                               passes_in_row, pc>>
           ELSE /\ cards' = [cards EXCEPT ![turn_index] = t.hand]
                /\ last_play' = t.taken
                /\ last_player' = turn_index
                /\ passes_in_row' = 0
                /\ role' = role
                /\ IF fails = 1
                   THEN /\ SetLedger(append_raises(TheLedger))
                        /\ Raise("IOError")
                        /\ UNCHANGED turn_index
                   ELSE IF check_win(t.hand)
                   THEN /\ UNCHANGED turn_index
                        /\ IF fails = 2
                           THEN SetLedger(append_raises(L1)) /\ Raise("IOError")
                           ELSE /\ SetLedger(append(L1, "GAME_END",
                                        [winner_index |-> turn_index,
                                         role |-> role[turn_index]], clock))
                                /\ pc' = "over"
                                /\ out' = "won"
                   ELSE /\ fails = 0
                        /\ SetLedger(L1)
                        /\ turn_index' = (turn_index + 1) % 3
                        /\ pc' = "play"
                        /\ out' = "played"
    /\ UNCHANGED <<clock, rulesVars, bidVars, latest_ptr, restarts, harnessVars>>

(***************************************************************************)
(* The process ends and a later one resumes (main.maybe_resume).           *)
(***************************************************************************)
\* a write cut short by the end of the process leaves a fragment of a line
WriteTorn(f) == IF f # <<>> /\ ~f[Len(f)].nl THEN f ELSE Append(f, TornLine)

\* The process ends: by its return, by an uncaught exception, or killed.  Its
\* memory is gone.  Killed inside an append, it may leave a torn line.
Crash(torn) ==
    /\ pc # "dead"
    /\ torn => pc \in {"new", "deal", "bid", "play"}
    /\ pc' = "dead"
    /\ file' = IF torn THEN WriteTorn(file) ELSE file
    /\ ledger_seq' = 0
    /\ ledger_last_hash' = EmptyHash
    /\ cards' = [i \in Seats |-> <<>>]
    /\ role' = [i \in Seats |-> PEASANT]
    /\ last_play' = <<>>
    /\ last_player' = None
    /\ turn_index' = 0
    /\ passes_in_row' = 0
    /\ bottom' = <<>>
    /\ landlord_idx' = 0
    /\ order' = <<>>
    /\ highest' = -1
    /\ winner' = None
    /\ bid_pos' = 0
    /\ controller' = FALSE
    /\ notes' = <<>>
    /\ cmd' = <<>>
    /\ out' = ""
    /\ UNCHANGED <<clock, latest_ptr, restarts, harnessVars>>

\* A new process: Game(names), then Game.resume_from_ledger on the log the
\* pointer names, then play().  read_all raising ends rebuild before it
\* touches the players.
Resume ==
    /\ pc = "dead"
    /\ latest_ptr
    /\ restarts < MaxRestarts
    /\ restarts' = restarts + 1
    /\ SetLedger(ledger_init(file))
    /\ LET r == read_all(file)
           S == rebuild(r.events)
       IN  IF ~r.ok
           THEN Raise(r.error) /\ UNCHANGED roundVars
           ELSE /\ cards' = S.cards
                /\ role' = S.role
                /\ last_play' = S.last_play
                /\ last_player' = S.last_player
                /\ turn_index' = S.current_index
                /\ passes_in_row' = 0
                /\ pc' = "play"
                /\ out' = "resumed"
    /\ UNCHANGED <<clock, rulesVars, bidVars, latest_ptr, cmd, harnessVars>>

(***************************************************************************)
(* A caller of the Ledger alone: it appends sample events, closes and      *)
(* reopens the log, is killed inside an append, has one stored payload     *)
(* changed behind its back, and reads the log back.                        *)
(***************************************************************************)
\* the events the caller appends: a PASS, and a DEAL whose "players" keys are
\* the ints rules.setup passes
SampleEvents ==
    { [type |-> "PASS", payload |-> [player_index |-> 1]],
      [type |-> "DEAL",
       payload |-> [players |-> << <<IntKey(0), <<standard_deck[1]>>>>,
                                   <<IntKey(1), <<standard_deck[2]>>>>,
                                   <<IntKey(2), <<>>>> >>,
                    bottom |-> <<>>]] }

\* a stored payload after somebody changed it: another JSON value of its kind
Forge(etype, payload) ==
    IF etype = "DEAL"
    THEN [payload EXCEPT !.bottom = Append(@, standard_deck[54])]
    ELSE [payload EXCEPT !.player_index = (@ + 1) % 3]

\* _now_iso() moves on
Tick ==
    /\ hpc = "open"
    /\ clock < MaxClock
    /\ clock' = clock + 1
    /\ UNCHANGED <<ledgerVars, roundVars, rulesVars, bidVars, pc, latest_ptr, restarts,
                   cmd, out, harnessVars>>

\* ledger.append(etype, payload); `fails`: open() or write() raises
LedgerAppend(ev, fails) ==
    /\ hpc = "open"
    /\ ledger_seq < MaxAppends
    /\ Len(file) < MaxAppends
    /\ IF fails
       THEN /\ SetLedger(append_raises(TheLedger))
            /\ seen' = seen \cup {"failed"}
            /\ UNCHANGED returned
       ELSE /\ SetLedger(append(TheLedger, ev.type, ev.payload, clock))
            /\ returned' = Append(returned, FullRecord(TheLedger, ev.type, ev.payload, clock))
            /\ UNCHANGED seen
    /\ UNCHANGED <<fnVars, clock, roundVars, rulesVars, bidVars, pc, latest_ptr, restarts,
                   cmd, out, hpc, read_out, tampered>>

\* the Ledger object is dropped
LedgerClose ==
    /\ hpc = "open"
    /\ hpc' = "closed"
    /\ ledger_seq' = 0
    /\ ledger_last_hash' = EmptyHash
    /\ UNCHANGED <<fnVars, file, clock, roundVars, rulesVars, bidVars, pc, latest_ptr, restarts,
                   cmd, out, returned, read_out, tampered, seen>>

\* the caller is killed inside an append: a fragment of a line stays behind
LedgerKill ==
    /\ hpc = "open"
    /\ Len(file) < MaxAppends
    /\ hpc' = "closed"
    /\ file' = WriteTorn(file)
    /\ ledger_seq' = 0
    /\ ledger_last_hash' = EmptyHash
    /\ seen' = seen \cup {"torn"}
    /\ UNCHANGED <<fnVars, clock, roundVars, rulesVars, bidVars, pc, latest_ptr, restarts,
                   cmd, out, returned, read_out, tampered>>

\* Ledger(path) on the log as it stands
LedgerOpen ==
    /\ hpc = "closed"
    /\ hpc' = "open"
    /\ SetLedger(ledger_init(file))
    /\ UNCHANGED <<fnVars, clock, roundVars, rulesVars, bidVars, pc, latest_ptr, restarts,
                   cmd, out, returned, read_out, tampered, seen>>

\* the payload of the stored record on line k is changed, once
Tamper(k) ==
    /\ hpc # "done"
    /\ tampered = 0
    /\ k \in DOMAIN file
    /\ file[k].parses
    /\ file' = [file EXCEPT ![k].obj.payload = Forge(file[k].obj.type, @)]
    /\ tampered' = file[k].obj.seq
    /\ UNCHANGED <<fnVars, ledger_seq, ledger_last_hash, clock, roundVars, rulesVars, bidVars,
                   pc, latest_ptr, restarts, cmd, out, hpc, returned, read_out, seen>>

\* ledger.read_all(): what it gives for the log as it stands; the caller stops
ReadAll ==
    /\ hpc = "open"
    /\ hpc' = "done"
    /\ read_out' = [file |-> file, result |-> read_all(file)]
    /\ UNCHANGED <<fnVars, ledgerVars, clock, roundVars, rulesVars, bidVars, pc, latest_ptr,
                   restarts, cmd, out, returned, tampered, seen>>

\* Game builds its rules without a bidding controller: every bid is 0
Next == \/ \E fails \in BOOLEAN : GameStart(fails)
        \/ \E d \in Shuffles, start \in Seats, fails \in BOOLEAN : Deal(d, start, fails)
        \/ \E fails \in BOOLEAN : Bid(0, fails)
        \/ \E rnd \in Seats, fails \in BOOLEAN : SetLandlord(rnd, fails)
        \/ \E fails \in 0 .. 2 : Pass(fails)
        \/ \E ranks \in RankLists(cards[turn_index]), fails \in 0 .. 2 : Play(ranks, fails)
        \/ \E torn \in BOOLEAN : Crash(torn)
        \/ Resume

Spec == Init /\ [][Next]_vars

LedgerNext == \/ Tick
              \/ \E ev \in SampleEvents, fails \in BOOLEAN : LedgerAppend(ev, fails)
              \/ LedgerClose
              \/ LedgerKill
              \/ LedgerOpen
              \/ \E k \in 1 .. MaxAppends : Tamper(k)
              \/ ReadAll

LedgerSpec == Init /\ [][LedgerNext]_vars

(***************************************************************************)
(* One session from construction to the end of play(), in which every      *)
(* append returns and the process is not ended from outside.  The players  *)
(* may type refused commands as often as they like, but whenever the loop  *)
(* waits for a command a command the rules accept is typed in the end.     *)
(***************************************************************************)
LiveNext == \/ GameStart(FALSE)
            \/ \E d \in Shuffles, start \in Seats : Deal(d, start, FALSE)
            \/ Bid(0, FALSE)
            \/ \E rnd \in Seats : SetLandlord(rnd, FALSE)
            \/ Pass(0)
            \/ \E ranks \in RankLists(cards[turn_index]) : Play(ranks, 0)

\* Weak fairness of the accepted iteration of play(), the step of LiveNext
\* that ends "played", "won", "passed" or "reset", with its enabling condition
\* written out: play() awaits a command exactly when pc = "play", and a
\* command the rules accept then exists (a pass, or any single card of the
\* seat that leads).
LiveSpec ==
    /\ Init
    /\ [][LiveNext]_vars
    /\ \/ []<>(pc # "play")
       \/ []<><<LiveNext /\ out' \in {"played", "won", "passed", "reset"}>>_vars

\* setup() of rules built with a bidding controller, which returns any bid
SetupNext == \/ \E fails \in BOOLEAN : GameStart(fails)
             \/ \E d \in Shuffles, start \in Seats, fails \in BOOLEAN : Deal(d, start, fails)
             \/ \E bid \in BidInputs, fails \in BOOLEAN : Bid(bid, fails)
             \/ \E rnd \in Seats, fails \in BOOLEAN : SetLandlord(rnd, fails)

\* a caller that builds StandardDouDizhuRules(cfg, ledger, bidding_controller)
SetupInit == Start(TRUE)

SetupSpec == SetupInit /\ [][SetupNext]_vars

(***************************************************************************)
(* A caller of rebuild alone: it holds a verified log, written by appends  *)
(* of the events of a setup and of some events of play, among them one of  *)
(* a type EventType does not have, and calls rebuild on it more than once, *)
(* on a fresh player set or on the set the call before has filled.         *)
(***************************************************************************)
\* the events of a setup with landlord ll, as rules.setup appends them
SetupEvents(ll) ==
    << [type |-> "DEAL",
        payload |-> [players |-> [k \in 1 .. 3 |-> <<IntKey(k - 1), Deals(GameDeck)[k - 1]>>],
                     bottom |-> BottomOf(GameDeck)]],
       [type |-> "SET_LANDLORD",
        payload |-> [landlord_idx |-> ll, bottom |-> BottomOf(GameDeck)]] >>

\* the PLAY event of seat i for the cards cs, as play() appends it
PlayEvent(i, cs) ==
    LET m == evaluate(cs)
    IN  [type |-> "PLAY",
         payload |-> [player_index |-> i, codes |-> cs, tokens |-> RanksOf(cs),
                      match |-> [name |-> m.name, key |-> m.key, meta |-> m.meta,
                                 priority |-> m.priority]]]

\* the events that follow the setup: each seat plays the first card it was
\* dealt or passes, a trick resets, and an event of a type of no EventType
TailEvents ==
    {PlayEvent(i, <<Deals(GameDeck)[i][1]>>) : i \in Seats}
    \cup {[type |-> "PASS", payload |-> [player_index |-> i]] : i \in Seats}
    \cup {[type |-> "ROUND_RESET", payload |-> [reason |-> "passes_reset"]],
          [type |-> "CHAT", payload |-> [reason |-> "hello"]]}

ReplayInputs ==
    {SetupEvents(ll) \o t :
        ll \in Seats, t \in UNION {[1 .. n -> TailEvents] : n \in 0 .. MaxTail}}

\* the log the appends of evs leave, from event i on
RECURSIVE LogFrom(_, _, _)
LogFrom(L, evs, i) ==
    IF i > Len(evs) THEN L.file
    ELSE LogFrom(append(L, evs[i].type, evs[i].payload, 0), evs, i + 1)

LogOf(evs) == LogFrom(LedgerObj(<<>>, 0, EmptyHash), evs, 1)

ReplayInit == \E evs \in ReplayInputs : Started(FALSE, LogOf(evs), evs)

\* rebuild(players, Ledger(path)): on a fresh player set, or on the set the
\* call before has left; the caller keeps what rebuild returns and what it
\* has made of the players
Replay(fresh) ==
    /\ Len(fn_out) < MaxReplays
    /\ fresh \/ fn_out # <<>>
    /\ read_all(file).ok
    /\ LET P == IF fresh THEN NewPlayers ELSE [cards |-> cards, role |-> role]
           S == rebuild_on(P, read_all(file).events)
       IN  /\ fn_out' = Append(fn_out, [ok |-> TRUE, state |-> S])
           /\ cards' = S.cards
           /\ role' = S.role
    /\ UNCHANGED <<ledgerVars, clock, last_play, last_player, turn_index, passes_in_row,
                   rulesVars, bidVars, pc, latest_ptr, restarts, cmd, out,
                   hpc, returned, read_out, tampered, seen, fn_in>>

ReplayNext == \E fresh \in BOOLEAN : Replay(fresh)

ReplaySpec == ReplayInit /\ [][ReplayNext]_vars

(***************************************************************************)
(* A caller of evaluate alone: it holds a list of cards, has it classified *)
(* as it stands, and then in another order.                                *)
(***************************************************************************)
\* the cards the hands are drawn from: the four 3s, a run above them, the jokers
HandPool ==
    << <<"3", "S">>, <<"3", "H">>, <<"3", "C">>, <<"3", "D">>, <<"4", "S">>,
       <<"5", "S">>, <<"6", "S">>, <<"7", "S">>, <<"BJ", "">>, <<"RJ", "">> >>

\* the cards of the pool at the positions I, in pool order
RECURSIVE Pick(_, _)
Pick(I, k) ==
    IF k > Len(HandPool) THEN <<>>
    ELSE (IF k \in I THEN <<HandPool[k]>> ELSE <<>>) \o Pick(I, k + 1)

\* hands of the larger shapes and of their neighbours: a run to the ace and
\* one into the 2, three pairs and two triples in a row, four with two
\* singles, four with one pair, four with two pairs
ShapeSamples ==
    { << <<"10", "S">>, <<"J", "S">>, <<"Q", "S">>, <<"K", "S">>, <<"A", "S">> >>,
      << <<"J", "S">>, <<"Q", "S">>, <<"K", "S">>, <<"A", "S">>, <<"2", "S">> >>,
      << <<"3", "S">>, <<"3", "H">>, <<"4", "S">>, <<"4", "H">>, <<"5", "S">>, <<"5", "H">> >>,
      << <<"3", "S">>, <<"3", "H">>, <<"3", "C">>, <<"4", "S">>, <<"4", "H">>, <<"4", "C">> >>,
      << <<"3", "S">>, <<"3", "H">>, <<"3", "C">>, <<"3", "D">>, <<"4", "S">>, <<"5", "S">> >>,
      << <<"3", "S">>, <<"3", "H">>, <<"3", "C">>, <<"3", "D">>, <<"4", "S">>, <<"4", "H">> >>,
      << <<"3", "S">>, <<"3", "H">>, <<"3", "C">>, <<"3", "D">>, <<"4", "S">>, <<"4", "H">>,
         <<"5", "S">>, <<"5", "H">> >> }

HandInputs ==
    {Pick(I, 1) : I \in {J \in SUBSET (1 .. Len(HandPool)) :
                            Cardinality(J) \in 1 .. MaxHand}}
    \cup ShapeSamples

\* the orders a list of cards can be given in
RECURSIVE Orders(_)
Orders(cs) ==
    IF cs = <<>> THEN {<<>>}
    ELSE UNION {{<<cs[i]>> \o q : q \in Orders(DelAt(cs, i))} : i \in DOMAIN cs}

\* what the caller keeps of registry.evaluate(cards)
Classified(cs) == [cards |-> cs, match |-> evaluate(cs)]

ClassifyInit == \E h \in HandInputs : Started(FALSE, <<>>, h)

\* registry.evaluate on the cards as the caller holds them
Evaluate ==
    /\ fn_out = <<>>
    /\ fn_out' = <<Classified(fn_in)>>
    /\ UNCHANGED <<ledgerVars, clock, roundVars, rulesVars, bidVars, pc, latest_ptr,
                   restarts, cmd, out, hpc, returned, read_out, tampered, seen, fn_in>>

\* registry.evaluate on the same cards in another order, q
Reorder(q) ==
    /\ Len(fn_out) = 1
    /\ fn_out' = Append(fn_out, Classified(q))
    /\ UNCHANGED <<ledgerVars, clock, roundVars, rulesVars, bidVars, pc, latest_ptr,
                   restarts, cmd, out, hpc, returned, read_out, tampered, seen, fn_in>>

ClassifyNext == \/ Evaluate
                \/ Len(fn_out) = 1 /\ \E q \in Orders(fn_in) : Reorder(q)

ClassifySpec == ClassifyInit /\ [][ClassifyNext]_vars

(***************************************************************************)
(* A caller of HandRegistry: it holds a list of cards, has it classified   *)
(* by the default registry, and then by a registry built with the same     *)
(* patterns registered in another order.                                   *)
(***************************************************************************)
\* the cards of the ranks given, all of suit s
Suited(ranks, s) == [i \in DOMAIN ranks |-> <<ranks[i], s>>]

\* hands around the run: 3-7 with the 7 replaced by a 2 and by an 8, a run of
\* six, the four top ranks below the jokers with a joker, and a run to the 2
\* with both jokers
RunSamples ==
    { Suited(<<"3", "4", "5", "6", "2">>, "S"),
      Suited(<<"3", "4", "5", "6", "8">>, "S"),
      Suited(<<"8", "3", "5", "4", "7", "6">>, "H"),
      Suited(<<"J", "Q", "K", "A">>, "S") \o << <<"BJ", "">> >>,
      Suited(<<"K", "A", "2">>, "S") \o << <<"BJ", "">>, <<"RJ", "">> >> }

RegistryInputs == HandInputs \cup RunSamples

\* the orders the built-in patterns are registered in: every rotation of
\* BUILTIN_PATTERNS, and list(reversed(BUILTIN_PATTERNS))
RegistryOrders ==
    LET n == Len(BUILTIN_PATTERNS)
    IN  {Rot(BUILTIN_PATTERNS, k) : k \in 1 .. (n - 1)}
            \cup {[i \in 1 .. n |-> BUILTIN_PATTERNS[n + 1 - i]]}

\* what the caller keeps of HandRegistry(patterns).evaluate(cards)
Registered(patterns, cs) ==
    [patterns |-> patterns, match |-> EvaluateFrom(patterns, 1, cs, NoMatch)]

RegistryInit == \E h \in RegistryInputs : Started(FALSE, <<>>, h)

\* HandRegistry().evaluate(cards): patterns = list(BUILTIN_PATTERNS)
EvaluateBuiltin ==
    /\ fn_out = <<>>
    /\ fn_out' = <<Registered(BUILTIN_PATTERNS, fn_in)>>
    /\ UNCHANGED <<ledgerVars, clock, roundVars, rulesVars, bidVars, pc, latest_ptr,
                   restarts, cmd, out, hpc, returned, read_out, tampered, seen, fn_in>>

\* HandRegistry(patterns=ps).evaluate(cards)
EvaluateRegistered(ps) ==
    /\ Len(fn_out) = 1
    /\ fn_out' = Append(fn_out, Registered(ps, fn_in))
    /\ UNCHANGED <<ledgerVars, clock, roundVars, rulesVars, bidVars, pc, latest_ptr,
                   restarts, cmd, out, hpc, returned, read_out, tampered, seen, fn_in>>

RegistryNext == \/ EvaluateBuiltin
                \/ \E ps \in RegistryOrders : EvaluateRegistered(ps)

RegistrySpec == RegistryInit /\ [][RegistryNext]_vars

(***************************************************************************)
(* A caller of can_beat: it holds three hands and asks of every ordered    *)
(* pair of them whether the first beats the second.                        *)
(***************************************************************************)
\* n cards of one rank, in SUITS order
OfRank(r, n) == [i \in 1 .. n |-> <<r, SUITS[i]>>]

\* hands of every built-in shape, with a second key, a second variant or the
\* same ranks in other suits where the comparison depends on it, and one hand
\* of no shape
CompareHands ==
    { OfRank("3", 1), << <<"3", "H">> >>, OfRank("4", 1),
      OfRank("3", 2), << <<"3", "C">>, <<"3", "D">> >>, OfRank("4", 2),
      OfRank("3", 3), OfRank("4", 3),
      OfRank("3", 3) \o OfRank("4", 1), OfRank("3", 3) \o OfRank("4", 2),
      OfRank("3", 4), OfRank("4", 4),
      << <<"BJ", "">>, <<"RJ", "">> >>,
      OfRank("4", 4) \o Suited(<<"5", "6">>, "S"),
      OfRank("3", 4) \o OfRank("5", 2) \o OfRank("6", 2),
      Suited(<<"3", "4", "5", "6", "7">>, "S"),
      Suited(<<"4", "5", "6", "7", "8">>, "H"),
      Suited(<<"3", "4", "5", "6", "7", "8">>, "C"),
      OfRank("3", 2) \o OfRank("4", 2) \o OfRank("5", 2),
      OfRank("4", 2) \o OfRank("5", 2) \o OfRank("6", 2) \o OfRank("7", 2),
      OfRank("3", 3) \o OfRank("4", 3),
      OfRank("4", 3) \o OfRank("5", 3) \o OfRank("6", 3),
      Suited(<<"3", "5">>, "S") }

\* what the caller keeps: evaluate of each hand and can_beat(hs[i], hs[j])
Compared(hs) ==
    [match |-> [i \in DOMAIN hs |-> evaluate(hs[i])],
     beats |-> [i \in DOMAIN hs |-> [j \in DOMAIN hs |-> can_beat(hs[i], hs[j])]]]

CompareInit == \E a, b, c \in CompareHands : Started(FALSE, <<>>, <<a, b, c>>)

\* registry.can_beat on every ordered pair of the hands held
CompareAll ==
    /\ fn_out = <<>>
    /\ fn_out' = <<Compared(fn_in)>>
    /\ UNCHANGED <<ledgerVars, clock, roundVars, rulesVars, bidVars, pc, latest_ptr,
                   restarts, cmd, out, hpc, returned, read_out, tampered, seen, fn_in>>

CompareSpec == CompareInit /\ [][CompareAll]_vars

(***************************************************************************)
(* Properties of the ledger                                                *)
(***************************************************************************)
\* every line of the file is a complete record
NoTorn(f) == \A i \in DOMAIN f : f[i].parses

\* the hash the record on line i of a file has to continue
PrevHashAt(f, i) == IF i = 1 THEN EmptyHash ELSE f[i - 1].obj.hash

\* the record on line i parses and carries the hash of its content
Verifies(f, i) ==
    /\ f[i].parses
    /\ f[i].obj.hash = hash_record(PrevHashAt(f, i), CoreOf(f[i].obj))

\* the file without its last line
Front(f) == SubSeq(f, 1, Len(f) - 1)

\* C1: in a log without torn lines, whatever appends, failed appends, closings
\* and reopenings made it, the stored records are numbered 1..N without gap or
\* repeat, record 1 continues the empty hash, every later record continues the
\* hash of the record before it, and every hash is H(prev_hash, seq/type/payload/ts)
C1_ChainInvariant ==
    (NoTorn(file) /\ tampered = 0) =>
        \A i \in DOMAIN file :
            /\ file[i].obj.seq = i
            /\ file[i].obj.prev_hash = PrevHashAt(file, i)
            /\ file[i].obj.hash = hash_record(file[i].obj.prev_hash, CoreOf(file[i].obj))

\* C5: read_all on a log whose records verify up to the last one, and whose
\* last line is torn or carries a wrong hash, does not raise and returns the
\* records before that line
C5_FinalRecordTolerated ==
    (/\ hpc = "done"
     /\ read_out.file # <<>>
     /\ read_all(Front(read_out.file)).ok
     /\ ~Verifies(read_out.file, Len(read_out.file)))
    => /\ read_out.result.ok
       /\ read_out.result.events = read_all(Front(read_out.file)).events

\* C6: in a log of complete records of which the payload of the one numbered k
\* was changed, read_all raises the error that names seq k, and the records
\* before that one verify
C6_TamperNamed ==
    (hpc = "done" /\ tampered # 0 /\ NoTorn(read_out.file)) =>
        LET f == read_out.file
            k == CHOOSE i \in DOMAIN f : f[i].obj.seq = tampered
        IN  /\ ~read_out.result.ok
            /\ read_out.result.error = "ValueError"
            /\ read_out.result.seq = tampered
            /\ read_all(SubSeq(f, 1, k - 1)).ok

\* C6 happens: the middle record of a three record log was changed, and the log read
C6_TamperedMiddleRead ==
    /\ hpc = "done"
    /\ tampered = 2
    /\ Len(read_out.file) = 3
    /\ NoTorn(read_out.file)
    /\ read_out.result.seq = 2

\* read_all's event e is the record r that append returned, but for the payload
SameRecord(e, r) ==
    /\ e.seq = r.seq
    /\ e.type = r.type
    /\ e.prev_hash = r.prev_hash
    /\ e.hash = r.hash

\* every append of the caller returned, no write was cut short, no stored
\* record was changed, and the caller has read the log
OnlyAppended == hpc = "done" /\ seen = {} /\ tampered = 0

\* C7 as stated: after N appends on a fresh log read_all returns N events, in
\* order, numbered 1..N, with the type, payload, prev_hash and hash of the
\* records append returned
C7_ReadReturnsAppended ==
    OnlyAppended =>
        /\ read_out.result.ok
        /\ Len(read_out.result.events) = Len(returned)
        /\ \A i \in DOMAIN returned :
            /\ read_out.result.events[i].seq = i
            /\ SameRecord(read_out.result.events[i], returned[i])
            /\ read_out.result.events[i].payload = returned[i].payload

\* C7 amended: the same, with the payload as json.dumps wrote it: the payload
\* given to append, its integer mapping keys turned into strings
C7_ReadReturnsEncoded ==
    OnlyAppended =>
        /\ read_out.result.ok
        /\ Len(read_out.result.events) = Len(returned)
        /\ \A i \in DOMAIN returned :
            /\ read_out.result.events[i].seq = i
            /\ SameRecord(read_out.result.events[i], returned[i])
            /\ read_out.result.events[i].payload =
                    JsonPayload(returned[i].type, returned[i].payload)

\* C7 happens: three appends, a DEAL among them, and the log read back
C7_ThreeAppendsRead ==
    /\ OnlyAppended
    /\ Len(returned) = 3
    /\ \E i \in DOMAIN returned : returned[i].type = "DEAL"
    /\ Len(read_out.result.events) = 3

(***************************************************************************)
(* Properties of the game                                                  *)
(***************************************************************************)
\* the outcomes of a command the rules refuse, and of one they let through
Rejected(o) == o \in {"not_held", "no_pattern", "cannot_beat", "pass_rejected"}
Accepted(o) == o \in {"played", "won", "passed", "reset"}

\* the step is an iteration of play() on rank tokens
IsPlayStep == pc = "play" /\ cmd' # PassCmd /\ cmd' # <<>>

\* the step is an iteration of play() on "pass"
IsPassStep == pc = "play" /\ cmd' = PassCmd

\* the cards of a sequence
CardSet(cs) == {cs[i] : i \in DOMAIN cs}

\* C2: a step whose append raises leaves the hands, last play, last player,
\* pass counter, acting seat, roles and the ledger's next seq and last hash
\* as they were before the action
C2_FailedAppendChangesNothing ==
    [][out' = "IOError" =>
            UNCHANGED <<cards, last_play, last_player, passes_in_row, turn_index, role,
                        ledger_seq, ledger_last_hash>>]_vars

\* C3: while the game awaits a command, rebuild over the log gives the live
\* hands, roles, last play, last player and acting seat
C3_RebuildEqualsLive ==
    pc = "play" =>
        LET r == read_all(file)
            S == rebuild(r.events)
        IN  /\ r.ok
            /\ S.cards = cards
            /\ S.role = role
            /\ S.last_play = last_play
            /\ S.last_player = last_player
            /\ S.current_index = turn_index

\* C3 happens: a session that was never interrupted stands after a trick reset
C3_LiveAfterReset == pc = "play" /\ out = "reset" /\ restarts = 0 /\ last_play = <<>>

\* C4: when the log ends with a PLAY and one PASS, the next accepted PASS is
\* the second of the trick: it clears the last play and records ROUND_RESET,
\* in a resumed session as in an uninterrupted one
C4_PassCounterRestored ==
    [][(/\ IsPassStep
        /\ Len(file) >= 2
        /\ file[Len(file)].obj.type = "PASS"
        /\ file[Len(file) - 1].obj.type = "PLAY"
        /\ Accepted(out'))
       => /\ out' = "reset"
          /\ passes_in_row' = 0
          /\ last_play' = <<>>
          /\ file'[Len(file')].obj.type = "ROUND_RESET"]_vars

\* C8: a PLAY of cards the acting seat holds is refused exactly when the cards
\* match no shape, or a last play of another seat stands that they do not beat
C8_PlayAcceptedIff ==
    [][(IsPlayStep /\ has_cards(cards[turn_index], cmd')) =>
        LET C == pick_from_hand(cards[turn_index], cmd')
            allowed ==
                /\ evaluate(C) # NoMatch
                /\ (last_play # <<>> /\ last_player # turn_index) => can_beat(C, last_play)
        IN  /\ Rejected(out') <=> ~allowed
            /\ Accepted(out') => allowed]_vars

\* C8 happens: a seat has just beaten the play of the seat before it
C8_BeatLastPlay ==
    /\ out = "played"
    /\ Len(file) >= 2
    /\ file[Len(file)].obj.type = "PLAY"
    /\ file[Len(file) - 1].obj.type = "PLAY"
    /\ file[Len(file) - 1].obj.payload.player_index # last_player

\* C9: an accepted PLAY of cards C by seat s takes exactly C out of the hand of
\* s and leaves the other hands, makes C the last play and s the last player,
\* zeroes the pass counter, appends one PLAY event with s and the codes of C,
\* and passes the turn to (s + 1) % 3 unless the hand of s is empty
C9_AcceptedPlayEffects ==
    [][(IsPlayStep /\ Accepted(out')) =>
        LET s == turn_index
            C == last_play'
            n == Len(file)
        IN  /\ C = pick_from_hand(cards[s], cmd')
            /\ RanksOf(C) = cmd'
            /\ CardSet(C) \subseteq CardSet(cards[s])
            /\ Len(cards'[s]) = Len(cards[s]) - Len(C)
            /\ CardSet(cards'[s]) = CardSet(cards[s]) \ CardSet(C)
            /\ \A i \in Seats \ {s} : cards'[i] = cards[i]
            /\ last_player' = s
            /\ passes_in_row' = 0
            /\ SubSeq(file', 1, n) = file
            /\ file'[n + 1].obj.type = "PLAY"
            /\ file'[n + 1].obj.payload.player_index = s
            /\ file'[n + 1].obj.payload.codes = C
            /\ \A i \in (n + 2) .. Len(file') : file'[i].obj.type # "PLAY"
            /\ IF cards'[s] = <<>>
               THEN out' = "won"
               ELSE turn_index' = (s + 1) % 3 /\ Len(file') = n + 1]_vars

\* C9 happens: a pair has been played and the game goes on
C9_PairPlayed == pc = "play" /\ out = "played" /\ Len(last_play) = 2

\* C10: a PASS is refused when no last play stands or the acting seat made it,
\* and in every other state that awaits a command it is let through
C10_PassRejectedIff ==
    [][IsPassStep =>
        IF last_play = <<>> \/ last_player = turn_index
        THEN out' = "pass_rejected" /\ UNCHANGED <<file, roundVars>>
        ELSE /\ ~Rejected(out')
             /\ Accepted(out') => file'[Len(file) + 1].obj.type = "PASS"]_vars

\* C10 happens: a seat has passed on the play of another seat
C10_Passed == pc = "play" /\ out = "passed" /\ cmd = PassCmd /\ passes_in_row = 1

\* the number of seats: Game takes exactly three names
PlayerCount == 3

\* the types of the complete records of a log, line by line ("" for a fragment)
TypeAt(f, i) == IF i \in DOMAIN f /\ f[i].parses THEN f[i].obj.type ELSE ""

\* C11: an accepted PASS of seat s appends one PASS event of s, leaves the
\* hands, and passes the turn to (s + 1) % 3; when it brings the pass counter
\* to PlayerCount - 1 the last play and last player are cleared, the counter
\* is 0 again and ROUND_RESET follows the PASS directly; otherwise the counter
\* is one more, the last play stands and nothing follows the PASS.  And in the
\* log no three PASS events follow each other, and every ROUND_RESET stands
\* directly after a PASS.
C11_AcceptedPassEffects ==
    [][/\ (IsPassStep /\ Accepted(out')) =>
            LET s == turn_index
                n == Len(file)
            IN  /\ SubSeq(file', 1, n) = file
                /\ TypeAt(file', n + 1) = "PASS"
                /\ file'[n + 1].obj.payload.player_index = s
                /\ turn_index' = (s + 1) % 3
                /\ UNCHANGED <<cards, role>>
                /\ IF passes_in_row + 1 = PlayerCount - 1
                   THEN /\ out' = "reset"
                        /\ last_play' = <<>>
                        /\ last_player' = None
                        /\ passes_in_row' = 0
                        /\ Len(file') = n + 2
                        /\ TypeAt(file', n + 2) = "ROUND_RESET"
                   ELSE /\ out' = "passed"
                        /\ passes_in_row' = passes_in_row + 1
                        /\ UNCHANGED <<last_play, last_player>>
                        /\ Len(file') = n + 1
       /\ \A i \in DOMAIN file' :
            /\ ~(TypeAt(file', i) = "PASS" /\ TypeAt(file', i + 1) = "PASS"
                                          /\ TypeAt(file', i + 2) = "PASS")
            /\ TypeAt(file', i) = "ROUND_RESET" => TypeAt(file', i - 1) = "PASS"]_vars

\* C11 happens: two seats passed in turn on a play, and the trick was reset
C11_TwoPassesReset ==
    /\ out = "reset"
    /\ Len(file) >= 4
    /\ TypeAt(file, Len(file)) = "ROUND_RESET"
    /\ TypeAt(file, Len(file) - 1) = "PASS"
    /\ TypeAt(file, Len(file) - 2) = "PASS"
    /\ TypeAt(file, Len(file) - 3) = "PLAY"
    /\ turn_index = file[Len(file) - 3].obj.payload.player_index

\* the seat of the last PLAY record of a log (None when it has none)
LastPlaySeat(f) ==
    LET P == {i \in DOMAIN f : TypeAt(f, i) = "PLAY"}
    IN  IF P = {} THEN None
        ELSE f[CHOOSE i \in P : \A j \in P : j <= i].obj.payload.player_index

\* C12: the pass that resets a trick hands the turn to the seat of the last
\* PLAY in the log, which is the seat that owned the last play, and leaves no
\* last play; and a seat asked while no last play stands is not refused any
\* cards it holds that match a shape
C12_ResetLeadsLastPlayer ==
    [][/\ (IsPassStep /\ out' = "reset") =>
            /\ turn_index' = LastPlaySeat(file)
            /\ turn_index' = last_player
            /\ last_play' = <<>>
       /\ (IsPlayStep /\ last_play = <<>> /\ has_cards(cards[turn_index], cmd')
              /\ evaluate(pick_from_hand(cards[turn_index], cmd')) # NoMatch) =>
            ~Rejected(out')]_vars

\* C12 happens: a seat beat the opening play of a trick, the two others
\* passed, the trick was reset and that seat, not the opener, has led again
C12_BeaterLedAgain ==
    \E k \in DOMAIN file :
        /\ TypeAt(file, k) = "PLAY"
        /\ TypeAt(file, k + 1) = "PLAY"
        /\ TypeAt(file, k + 2) = "PASS"
        /\ TypeAt(file, k + 3) = "PASS"
        /\ TypeAt(file, k + 4) = "ROUND_RESET"
        /\ TypeAt(file, k + 5) = "PLAY"
        /\ file[k + 5].obj.payload.player_index = file[k + 1].obj.payload.player_index
        /\ file[k + 5].obj.payload.player_index # file[k].obj.payload.player_index

\* C13: an accepted PLAY of seat s that leaves s without cards ends the game:
\* the log grows by the PLAY and, directly after it, a GAME_END with the seat
\* s and the role of s, and play() returns; once it has returned the session
\* records nothing more and takes no further command
C13_EmptyHandEndsGame ==
    [][/\ (IsPlayStep /\ Accepted(out') /\ cards'[turn_index] = <<>>) =>
            LET s == turn_index
                n == Len(file)
            IN  /\ out' = "won"
                /\ pc' = "over"
                /\ Len(file') = n + 2
                /\ SubSeq(file', 1, n) = file
                /\ TypeAt(file', n + 1) = "PLAY"
                /\ file'[n + 1].obj.payload.player_index = s
                /\ TypeAt(file', n + 2) = "GAME_END"
                /\ file'[n + 2].obj.payload.winner_index = s
                /\ file'[n + 2].obj.payload.role = role[s]
       /\ (IsPlayStep /\ Accepted(out') /\ cards'[turn_index] # <<>>) => pc' = "play"
       /\ pc = "over" => (file' = file /\ pc' = "dead")]_vars

\* C13 happens: a peasant has played its last cards and the game is over
C13_PeasantWon ==
    /\ pc = "over"
    /\ out = "won"
    /\ cards[turn_index] = <<>>
    /\ TypeAt(file, Len(file)) = "GAME_END"
    /\ file[Len(file)].obj.payload.winner_index = turn_index
    /\ file[Len(file)].obj.payload.role = PEASANT

\* C14: an iteration of play() that refuses its command (cards not held, no
\* shape, last play not beaten, or a pass that is not allowed) appends
\* nothing, leaves the ledger's tail, the hands, roles, last play, last
\* player, pass counter and acting seat as they were, and play() goes on to
\* ask the same seat
C14_RejectedChangesNothing ==
    [][((IsPlayStep \/ IsPassStep) /\ Rejected(out')) =>
            /\ UNCHANGED <<file, ledger_seq, ledger_last_hash>>
            /\ UNCHANGED <<cards, role, last_play, last_player, passes_in_row, turn_index>>
            /\ pc' = "play"]_vars

\* C14 happens: after one pass in the trick, a seat has been refused cards
\* that do not beat the last play
C14_RefusedWeakerCards ==
    /\ pc = "play"
    /\ out = "cannot_beat"
    /\ passes_in_row = 1
    /\ last_play # <<>>
    /\ evaluate(pick_from_hand(cards[turn_index], cmd)) # NoMatch

(***************************************************************************)
(* Properties of setup                                                     *)
(***************************************************************************)
\* the step on which setup() returns
SetupCompletes == pc = "bid" /\ pc' = "play"

\* the DEAL record of a log
DealRecord(f) == f[CHOOSE i \in DOMAIN f : TypeAt(f, i) = "DEAL"].obj

\* C15: when setup() returns, the log ends with SET_LANDLORD; the seat it
\* names is the one seat with the landlord role, holds its dealt cards and
\* the bottom cards the event lists (HandSize + BottomSize cards), the two
\* other seats are peasants and hold their HandSize dealt cards, the rules
\* keep no bottom, and the acting seat is the landlord.  In the program the
\* deal has DealRounds rounds, which leave 3 of the 54 cards: 17 and 20 cards.
C15_SetupOutcome ==
    [][SetupCompletes =>
        LET e == file'[Len(file')].obj
            ll == e.payload.landlord_idx
            dealt(i) == DealtTo(DealRecord(file').payload.players, i)
        IN  /\ TypeAt(file', Len(file')) = "SET_LANDLORD"
            /\ {i \in Seats : role'[i] = LANDLORD} = {ll}
            /\ \A i \in Seats \ {ll} : role'[i] = PEASANT
            /\ Len(e.payload.bottom) = BottomSize
            /\ Len(cards'[ll]) = HandSize + BottomSize
            /\ CardSet(cards'[ll]) = CardSet(dealt(ll)) \cup CardSet(e.payload.bottom)
            /\ Cardinality(CardSet(cards'[ll])) = HandSize + BottomSize
            /\ \A i \in Seats \ {ll} :
                    /\ Len(cards'[i]) = HandSize
                    /\ Len(dealt(i)) = HandSize
                    /\ CardSet(cards'[i]) = CardSet(dealt(i))
            /\ bottom' = <<>>
            /\ turn_index' = ll
            /\ landlord_idx' = ll
            /\ Len(standard_deck) - 3 * DealRounds = 3
            /\ DealRounds + 3 = 20]_vars

\* C15 happens: setup has returned with the landlord the bids made
C15_SetupDone ==
    /\ pc = "play"
    /\ highest = 2
    /\ role[landlord_idx] = LANDLORD
    /\ turn_index = landlord_idx
    /\ Len(cards[landlord_idx]) = HandSize + BottomSize
    /\ TypeAt(file, Len(file)) = "SET_LANDLORD"

\* the bid of the k-th BID record of a log whose records 3..5 are the bids
BidAt(f, k) == f[2 + k].obj.payload.bid

\* the largest of three bids
MaxBid(f) ==
    CHOOSE m \in {BidAt(f, k) : k \in 1 .. 3} : \A k \in 1 .. 3 : BidAt(f, k) <= m

\* the controller has received the call named c
Told(ns, c) == \E i \in DOMAIN ns : ns[i][1] = c

\* C16: when setup() returns, the log holds GAME_START, DEAL, three BID
\* records and SET_LANDLORD; the BID records name the seats of the bidding
\* order start, start + 1, start + 2 (mod 3), each seat once, with bids in
\* 0..3.  If the largest bid is at least 1 the landlord is the first seat in
\* that order whose bid is the largest, and the controller is not told of a
\* no-bid outcome; if all bids are 0 the landlord is one of the seats, the
\* controller was told on_no_bid and that the landlord was picked at random.
C16_BiddingWinner ==
    [][SetupCompletes =>
        LET f == file'
            first == CHOOSE k \in 1 .. 3 :
                        /\ BidAt(f, k) = MaxBid(f)
                        /\ \A j \in 1 .. (k - 1) : BidAt(f, j) < MaxBid(f)
            sel == notes'[Len(notes')]
        IN  /\ Len(f) = 6
            /\ \A k \in 1 .. 3 :
                    /\ TypeAt(f, 2 + k) = "BID"
                    /\ f[2 + k].obj.payload.player_index = (order[1] + k - 1) % 3
                    /\ BidAt(f, k) \in 0 .. 3
            /\ {f[2 + k].obj.payload.player_index : k \in 1 .. 3} = Seats
            /\ sel[1] = "on_landlord_selected"
            /\ sel[2] = landlord_idx'
            /\ IF MaxBid(f) >= 1
               THEN /\ landlord_idx' = f[2 + first].obj.payload.player_index
                    /\ ~Told(notes', "on_no_bid")
                    /\ sel[3] = FALSE
               ELSE /\ landlord_idx' \in Seats
                    /\ Told(notes', "on_no_bid")
                    /\ sel[3] = TRUE]_vars

\* C16 happens: the first and the last bidder both bid 2 over a 1 between
\* them, and the first bidder is the landlord
C16_TieKeepsFirst ==
    /\ pc = "play"
    /\ Len(file) = 6
    /\ BidAt(file, 1) = 2
    /\ BidAt(file, 2) = 1
    /\ BidAt(file, 3) = 2
    /\ landlord_idx = order[1]
    /\ order[1] = 1

\* C17: a bid outside 0..3 is refused on the spot: no BID record is written
\* for it, no role and no local of the bidding changes, and the bidding still
\* awaits the bid of the same seat, so that it can go on to SET_LANDLORD
C17_BadBidRefusedLocally ==
    [][(pc = "bid" /\ out' = "ValueError") =>
            /\ file' = file
            /\ role' = role
            /\ UNCHANGED <<order, highest, winner, bid_pos>>
            /\ pc' = "bid"]_vars

(***************************************************************************)
(* Properties of replay                                                    *)
(***************************************************************************)
\* C18: on a verified log that holds an event of a type EventType does not
\* have, rebuild raises and returns no state
C18_UnknownTypeFatal ==
    (\E i \in DOMAIN fn_in : fn_in[i].type \notin EventTypes) =>
        \A k \in DOMAIN fn_out : ~fn_out[k].ok

\* C19: all calls of rebuild on one verified log return the same last play,
\* last player, acting seat and landlord seat and leave the same hands and
\* roles: the calls on fresh player sets, and also a call on the player set
\* the call before has filled
C19_ReplayIdempotent ==
    \A j, k \in DOMAIN fn_out :
        /\ fn_out[j].ok /\ fn_out[k].ok
        /\ fn_out[j].state.cards = fn_out[k].state.cards
        /\ fn_out[j].state.role = fn_out[k].state.role
        /\ fn_out[j].state.last_play = fn_out[k].state.last_play
        /\ fn_out[j].state.last_player = fn_out[k].state.last_player
        /\ fn_out[j].state.current_index = fn_out[k].state.current_index
        /\ fn_out[j].state.landlord_idx = fn_out[k].state.landlord_idx

\* C19 happens: rebuild has run twice on a log that ends with a PLAY and a
\* PASS, and the play it returns is the one of the log
C19_ReplayedTwice ==
    /\ Len(fn_out) = 2
    /\ Len(fn_in) = 4
    /\ fn_in[3].type = "PLAY"
    /\ fn_in[4].type = "PASS"
    /\ fn_out[2].state.last_play = fn_in[3].payload.codes
    /\ fn_out[2].state.landlord_idx = fn_in[2].payload.landlord_idx

(***************************************************************************)
(* Properties of classification                                            *)
(***************************************************************************)
\* C20: evaluate gives the cards of a hand in any two orders the same shape
\* name, key, metadata, priority and size, or no match in both
C20_OrderIndependent ==
    \A j, k \in DOMAIN fn_out :
        /\ fn_out[j].match.name = fn_out[k].match.name
        /\ fn_out[j].match.key = fn_out[k].match.key
        /\ fn_out[j].match.meta = fn_out[k].match.meta
        /\ fn_out[j].match.priority = fn_out[k].match.priority
        /\ fn_out[j].match.size = fn_out[k].match.size
        /\ (fn_out[j].match = NoMatch) <=> (fn_out[k].match = NoMatch)

\* C20 happens: a run given with its highest card first and its lowest last
\* has been classified as the run it is
C20_RunOutOfOrder ==
    /\ Len(fn_out) = 2
    /\ Len(fn_out[2].cards) = 5
    /\ fn_out[2].match.name = "sequence"
    /\ fn_out[2].match.key = value(fn_out[2].cards[1])
    /\ value(fn_out[2].cards[5]) < value(fn_out[2].cards[4])

\* the built-in matchers that match the cards
Matching(cs) ==
    {nm \in {BUILTIN_PATTERNS[i] : i \in DOMAIN BUILTIN_PATTERNS} : match(nm, cs) # NoMatch}

\* C21: at most one built-in matcher matches the cards; evaluate returns that
\* matcher's match, which no matching matcher exceeds by (priority, key), or
\* no match when none matches; and a registry with the patterns registered in
\* another order returns the same
C21_OneMatcherAnyOrder ==
    \A k \in DOMAIN fn_out :
        /\ Cardinality(Matching(fn_in)) <= 1
        /\ Matching(fn_in) = {} => fn_out[k].match = NoMatch
        /\ Matching(fn_in) # {} =>
              /\ fn_out[k].match \in {match(nm, fn_in) : nm \in Matching(fn_in)}
              /\ \A nm \in Matching(fn_in) :
                    ~TupleGreater(match(nm, fn_in), fn_out[k].match)
        /\ fn_out[k].match = fn_out[1].match

\* C21 happens: four cards of one rank have been classified as the bomb by a
\* registry whose first pattern is the single and whose last is the joker bomb
C21_BombRegisteredLast ==
    /\ Len(fn_out) = 2
    /\ fn_out[2].patterns[1] = "single"
    /\ fn_out[2].patterns[Len(BUILTIN_PATTERNS)] = "joker_bomb"
    /\ Len(fn_in) = 4
    /\ fn_out[2].match.name = "bomb"
    /\ fn_out[2].match.priority = BOMB

\* at least 5 cards of pairwise distinct ranks, none a 2 or a joker, whose
\* values fill the interval from the lowest to the highest
IsRun(cs) ==
    LET V == {value(cs[i]) : i \in DOMAIN cs}
    IN  /\ Len(cs) >= 5
        /\ Cardinality(V) = Len(cs)
        /\ \A i \in DOMAIN cs : rank(cs[i]) \notin {"2", "BJ", "RJ"}
        /\ \A v \in V : \A w \in V : \A u \in v .. w : u \in V

\* C25: the cards classify as a run exactly when they are a run as above; the
\* key is then the highest rank and the metadata the length; 3,4,5,6,7 is a
\* run of length 5 and 3,4,5,6,2 has no match
C25_RunExactly ==
    \A k \in DOMAIN fn_out :
        /\ (fn_out[k].match.name = "sequence") <=> IsRun(fn_in)
        /\ (match("sequence", fn_in) # NoMatch) <=> IsRun(fn_in)
        /\ IsRun(fn_in) =>
              /\ \A i \in DOMAIN fn_in : value(fn_in[i]) <= fn_out[k].match.key
              /\ \E i \in DOMAIN fn_in : value(fn_in[i]) = fn_out[k].match.key
              /\ fn_out[k].match.meta = << <<"length", Len(fn_in)>> >>
              /\ fn_out[k].match.size = Len(fn_in)
        /\ counts_by_rank(fn_in) = [r \in {"3", "4", "5", "6", "7"} |-> 1] =>
              /\ fn_out[k].match.name = "sequence"
              /\ MetaGet(fn_out[k].match.meta, "length") = 5
        /\ counts_by_rank(fn_in) = [r \in {"3", "4", "5", "6", "2"} |-> 1] =>
              fn_out[k].match = NoMatch

\* C25 happens: the default registry has found no match for 3,4,5,6,2
C25_RunIntoTwoUnmatched ==
    /\ Len(fn_out) = 1
    /\ counts_by_rank(fn_in) = [r \in {"3", "4", "5", "6", "2"} |-> 1]
    /\ fn_out[1].match = NoMatch

(***************************************************************************)
(* Properties of comparison                                                *)
(***************************************************************************)
\* the hands i and j of the caller are both classified
BothClassified(k, i, j) ==
    fn_out[k].match[i] # NoMatch /\ fn_out[k].match[j] # NoMatch

\* the tier the claim gives each shape
TierOf(nm) ==
    CASE nm = "joker_bomb" -> JOKER_BOMB
      [] nm = "bomb" -> BOMB
      [] nm \in {"four_with_two_singles", "four_with_two_pairs"} -> STRONG
      [] OTHER -> NORMAL

\* C22: of two classified hands of different tiers the one of the higher tier
\* beats the other and is not beaten by it, whatever the keys and sizes; the
\* joker pair beats every other classified hand, a bomb every classified hand
\* that is neither a bomb nor the joker pair; the tiers are ordered
\* ordinary < four-with-two < bomb < joker pair
C22_HigherTierBeats ==
    /\ NORMAL < STRONG /\ STRONG < BOMB /\ BOMB < JOKER_BOMB
    /\ \A k \in DOMAIN fn_out : \A i, j \in DOMAIN fn_in :
          LET a == fn_out[k].match[i]
              b == fn_out[k].match[j]
          IN  BothClassified(k, i, j) =>
                /\ a.priority = TierOf(a.name)
                /\ a.priority > b.priority =>
                      fn_out[k].beats[i][j] /\ ~fn_out[k].beats[j][i]
                /\ a.name = "joker_bomb" /\ b.name # "joker_bomb" =>
                      fn_out[k].beats[i][j]
                /\ a.name = "bomb" /\ b.name \notin {"bomb", "joker_bomb"} =>
                      fn_out[k].beats[i][j]

\* C22 happens: a bomb of four cards has beaten a four-with-two of six cards
\* and a higher key
C22_BombBeatsLargerHand ==
    /\ Len(fn_out) = 1
    /\ fn_out[1].match[1].name = "bomb"
    /\ fn_out[1].match[2].name = "four_with_two_singles"
    /\ fn_out[1].match[1].key < fn_out[1].match[2].key
    /\ Len(fn_in[1]) < Len(fn_in[2])
    /\ fn_out[1].beats[1][2]
    /\ ~fn_out[1].beats[2][1]

\* C23: of two classified hands of one tier, one beats the other only if they
\* have the same shape name and the same variant and its key is greater, and
\* then they have the same number of cards; hands of different names or
\* variants in one tier do not beat each other either way
C23_SameTierNeedsSameShape ==
    \A k \in DOMAIN fn_out : \A i, j \in DOMAIN fn_in :
        LET a == fn_out[k].match[i]
            b == fn_out[k].match[j]
        IN  BothClassified(k, i, j) /\ a.priority = b.priority =>
              /\ fn_out[k].beats[i][j] =>
                    /\ a.name = b.name
                    /\ a.meta = b.meta
                    /\ a.key > b.key
                    /\ Len(fn_in[i]) = Len(fn_in[j])
              /\ a.name # b.name \/ a.meta # b.meta =>
                    ~fn_out[k].beats[i][j] /\ ~fn_out[k].beats[j][i]

\* C23 happens: a run of six with the higher key has not beaten a run of five
C23_LongerRunRefused ==
    /\ Len(fn_out) = 1
    /\ fn_out[1].match[1].name = "sequence"
    /\ fn_out[1].match[2].name = "sequence"
    /\ MetaGet(fn_out[1].match[1].meta, "length") = 6
    /\ MetaGet(fn_out[1].match[2].meta, "length") = 5
    /\ fn_out[1].match[1].key > fn_out[1].match[2].key
    /\ ~fn_out[1].beats[1][2]
    /\ ~fn_out[1].beats[2][1]

\* the hands i and j share no card and are classified with the same tier,
\* shape name and variant
DisjointSameShape(k, i, j) ==
    /\ BothClassified(k, i, j)
    /\ CardSet(fn_in[i]) \cap CardSet(fn_in[j]) = {}
    /\ fn_out[k].match[i].priority = fn_out[k].match[j].priority
    /\ fn_out[k].match[i].name = fn_out[k].match[j].name
    /\ fn_out[k].match[i].meta = fn_out[k].match[j].meta

\* C24 as stated: two classified hands of disjoint cards with the same tier,
\* shape name and variant have different keys
C24_KeysNeverTie ==
    \A k \in DOMAIN fn_out : \A i, j \in DOMAIN fn_in :
        DisjointSameShape(k, i, j) =>
            fn_out[k].match[i].key # fn_out[k].match[j].key

\* C24 as amended: two such hands have different keys, or neither beats the
\* other
C24_TieBeatsNeither ==
    \A k \in DOMAIN fn_out : \A i, j \in DOMAIN fn_in :
        DisjointSameShape(k, i, j) =>
            \/ fn_out[k].match[i].key # fn_out[k].match[j].key
            \/ ~fn_out[k].beats[i][j] /\ ~fn_out[k].beats[j][i]

\* C24 happens: two singles of one rank in two suits have been compared, and
\* neither beats the other
C24_SameRankOtherSuit ==
    /\ Len(fn_out) = 1
    /\ DisjointSameShape(1, 1, 2)
    /\ fn_out[1].match[1].name = "single"
    /\ fn_out[1].match[1].key = fn_out[1].match[2].key
    /\ ~fn_out[1].beats[1][2]
    /\ ~fn_out[1].beats[2][1]

\* C28: can_beat is irreflexive, asymmetric and transitive
C28_StrictPartialOrder ==
    \A k \in DOMAIN fn_out : \A i, j, l \in DOMAIN fn_in :
        /\ ~fn_out[k].beats[i][i]
        /\ ~(fn_out[k].beats[i][j] /\ fn_out[k].beats[j][i])
        /\ fn_out[k].beats[i][j] /\ fn_out[k].beats[j][l] => fn_out[k].beats[i][l]

\* C28 happens: a bomb has beaten a pair, which has beaten a pair of a lower
\* key, and the bomb beats that one too
C28_ChainOfThree ==
    /\ Len(fn_out) = 1
    /\ fn_out[1].match[1].name = "bomb"
    /\ fn_out[1].match[2].name = "pair"
    /\ fn_out[1].match[3].name = "pair"
    /\ fn_out[1].beats[1][2]
    /\ fn_out[1].beats[2][3]
    /\ fn_out[1].beats[1][3]

(***************************************************************************)
(* Properties of the ledger after a torn write                             *)
(***************************************************************************)
\* C26: in a log in which a killed append left a fragment without newline,
\* with every append call having returned and no record changed, every event
\* append returned is a parseable line of the file of its own, and read_all
\* returns the events append returned, in order
C26_AppendAfterTornLine ==
    ("torn" \in seen /\ "failed" \notin seen /\ tampered = 0) =>
        /\ \A i \in DOMAIN returned :
              \E k \in DOMAIN file :
                  file[k].parses /\ SameRecord(file[k].obj, returned[i])
        /\ hpc = "done" =>
              /\ read_out.result.ok
              /\ Len(read_out.result.events) = Len(returned)
              /\ \A i \in DOMAIN returned :
                    SameRecord(read_out.result.events[i], returned[i])

(***************************************************************************)
(* Properties of the end of the game                                       *)
(***************************************************************************)
\* the number of GAME_END records in the log
GameEnds(f) == Cardinality({k \in DOMAIN f : TypeAt(f, k) = "GAME_END"})

\* C30: once a GAME_END is in the log no step of any session, resumed ones
\* included, appends a PLAY, PASS or ROUND_RESET, and the seat a session
\* awaits an action from holds at least one card
C30_GameOverFinal ==
    [][/\ GameEnds(file) > 0 =>
              \A k \in DOMAIN file' :
                  k > Len(file) => TypeAt(file', k) \notin {"PLAY", "PASS", "ROUND_RESET"}
       /\ pc' = "play" => cards'[turn_index'] # <<>>]_vars

(***************************************************************************)
(* Properties of the cards                                                 *)
(***************************************************************************)
\* the cards of the PLAY records of the log from line i on, in order
RECURSIVE PlayedFrom(_, _)
PlayedFrom(f, i) ==
    IF i > Len(f) THEN <<>>
    ELSE (IF TypeAt(f, i) = "PLAY" THEN f[i].obj.payload.codes ELSE <<>>)
            \o PlayedFrom(f, i + 1)

\* C27: while a process holds the game and its log holds the DEAL, the three
\* hands, the bottom the rules still hold and the cards of the recorded PLAYs
\* hold every card of the deck exactly once; and the cards a PLAY record
\* names were in the hand of its seat before the play
C27_CardConservation ==
    [][/\ (pc' # "dead" /\ \E k \in DOMAIN file' : TypeAt(file', k) = "DEAL") =>
              LET all == cards'[0] \o cards'[1] \o cards'[2] \o bottom'
                            \o PlayedFrom(file', 1)
              IN  Len(all) = Len(GameDeck) /\ CardSet(all) = CardSet(GameDeck)
       /\ \A k \in DOMAIN file' :
              k > Len(file) /\ TypeAt(file', k) = "PLAY" =>
                  CardSet(file'[k].obj.payload.codes)
                      \subseteq CardSet(cards[file'[k].obj.payload.player_index])]_vars

(***************************************************************************)
(* Properties of termination                                               *)
(***************************************************************************)
\* the PASS records of the log behind its last PLAY
PassesSincePlay(f) ==
    Cardinality({k \in DOMAIN f :
                    /\ TypeAt(f, k) = "PASS"
                    /\ \A j \in k .. Len(f) : TypeAt(f, j) # "PLAY"})

\* what is left to do: three steps for each card held, and the passes the
\* trick can still take
StepsLeft(cs, lp, n) ==
    3 * (Len(cs[0]) + Len(cs[1]) + Len(cs[2])) + (IF lp = <<>> THEN 0 ELSE 2 - n)

\* C29: in a session that is not interrupted, every accepted action lowers a
\* bound that is never negative: a pass of the seat that leads is refused, at
\* most two PASS records stand behind the last PLAY, an accepted play takes
\* cards from the hand of its seat, and the seat that cannot pass holds a card
\* to play; and once play() awaits a command the game comes to its end, with
\* exactly one GAME_END in the log
C29_LiveGameTerminates ==
    /\ [][/\ StepsLeft(cards', last_play', passes_in_row') >= 0
          /\ pc = "play" /\ Accepted(out') =>
                StepsLeft(cards', last_play', passes_in_row')
                    < StepsLeft(cards, last_play, passes_in_row)
          /\ IsPassStep /\ last_play = <<>> => out' = "pass_rejected"
          /\ PassesSincePlay(file') <= 2
          /\ IsPlayStep /\ Accepted(out') =>
                Len(cards'[turn_index]) < Len(cards[turn_index])
          /\ pc' = "play" /\ PassRefused' => cards'[turn_index'] # <<>>
          /\ GameEnds(file') = (IF pc' = "over" THEN 1 ELSE 0)]_vars
    /\ (pc = "play") ~> (pc = "over" /\ GameEnds(file) = 1)

\* C29 happens: a game has ended after a trick was passed out and led again
C29_EndedAfterReset ==
    /\ pc = "over"
    /\ GameEnds(file) = 1
    /\ \E k \in DOMAIN file : TypeAt(file, k) = "ROUND_RESET"
====
